---- MODULE Spec2Model ----
(***************************************************************************)
(* ScholarBridge ingestion pipeline: the fetch-cycle controller            *)
(* (cron/scheduler.ts), the provider manager (services/ai/index.ts), the   *)
(* batch runner and trust policy (services/ai/utils.ts), provider-side     *)
(* validation (services/ai/*.provider.ts, types/index.ts) and the          *)
(* store / run-log layer (services/scholarshipService.ts, db/Scholarship). *)
(*                                                                         *)
(* Modelling conventions                                                   *)
(*  - A JavaScript string is a sequence of one-character strings.          *)
(*  - A calendar date YYYY-MM-DD is the integer YYYYMMDD; an instant is    *)
(*    counted in half days, so midnight of date d is 2 * d and noon is     *)
(*    2 * d + 1.  An unparseable date is NaN.                              *)
(*  - A link is the WHATWG parse of the link string: its kind (a URL, the  *)
(*    empty string, unparseable text), protocol, host labels, the          *)
(*    extension of its path, and whether blanks surround it.               *)
(*  - Every await on the database either applies its operation and returns *)
(*    or rejects without effect; an action is the arrival of one such      *)
(*    answer together with the synchronous code that follows it up to the  *)
(*    next await.                                                          *)
(***************************************************************************)
EXTENDS Integers, Sequences, FiniteSets, TLC

\* ------------------------------------------------------------------ strings

Rep(c, n) == [i \in 1..n |-> c]

IsBlank(c) == c = " "

RECURSIVE TrimLeft(_)
TrimLeft(s) == IF s # <<>> /\ IsBlank(Head(s)) THEN TrimLeft(Tail(s)) ELSE s

RECURSIVE TrimRight(_)
TrimRight(s) ==
  IF s # <<>> /\ IsBlank(s[Len(s)]) THEN TrimRight(SubSeq(s, 1, Len(s) - 1)) ELSE s

\* String.prototype.trim
Trim(s) == TrimRight(TrimLeft(s))

LowerChar(c) ==
  CASE c = "A" -> "a"
    [] c = "B" -> "b"
    [] c = "O" -> "o"
    [] c = "D" -> "d"
    [] c = "P" -> "p"
    [] c = "F" -> "f"
    [] OTHER -> c

\* String.prototype.toLowerCase
ToLower(s) == [i \in 1..Len(s) |-> LowerChar(s[i])]

\* new RegExp("^" + escapeRegex(pattern) + "$", "i").test(text): escapeRegex
\* makes every character of the pattern literal, so the match is equality up
\* to letter case.
RegexMatchI(pattern, text) == ToLower(pattern) = ToLower(text)

\* ------------------------------------------------------------------ dates

NaN == -1

\* new Date("YYYY-MM-DD").getTime(): midnight of that date, in half days; NaN
\* when the text names no calendar date.
DateOf(d) == IF d = NaN THEN NaN ELSE d * 2

\* the relational operators on Date: false whenever an operand is NaN
DateLt(a, b) == a # NaN /\ b # NaN /\ a < b
DateGt(a, b) == DateLt(b, a)

\* Date.prototype.getFullYear
YearOf(t) == t \div 20000

\* maxDate.setFullYear(maxDate.getFullYear() + n)
PlusYears(t, n) == t + n * 20000

\* new Date(now.getFullYear() + n, 11, 31): midnight of 31 December
EndOfYearPlus(t, n) == ((YearOf(t) + n) * 10000 + 1231) * 2

\* ------------------------------------------------------------------ links

\* utils.ts BLOCKED_DOMAINS, each domain as its labels
BLOCKED_DOMAINS == {
  <<"scholarshiptab", "com">>, <<"studentscholarships", "org">>,
  <<"scholarshipnext", "com">>, <<"scholaropportunity", "com">>,
  <<"scholarships", "com">>, <<"fastweb", "com">>,
  <<"scholarshipowl", "com">>, <<"scholarshipportal", "com">>,
  <<"findaid", "org">>, <<"internationalscholarships", "com">>,
  <<"scholars4dev", "com">>, <<"afterschool", "my">>,
  <<"opportunitiesforafricans", "com">>, <<"oyaop", "com">>,
  <<"aseanop", "com">>, <<"marj3", "com">>, <<"opportunitydesk", "org">>,
  <<"scholarshipsads", "com">>, <<"scholarshipscorner", "website">>,
  <<"grantfinder", "com">>, <<"scholarshipslab", "com">>,
  <<"uscholarships", "us">>, <<"scholarshipau", "com">>,
  <<"happyfacetravels", "com">>, <<"worldscholarshipforum", "com">>,
  <<"scholarshipscafe", "com">>, <<"scholarsme", "com">>,
  <<"myschoolscholarship", "com">>, <<"facebook", "com">>,
  <<"twitter", "com">>, <<"x", "com">>, <<"linkedin", "com">>,
  <<"instagram", "com">>, <<"youtube", "com">>, <<"tiktok", "com">>,
  <<"reddit", "com">>, <<"quora", "com">>, <<"pinterest", "com">>,
  <<"medium", "com">>, <<"wordpress", "com">>, <<"blogspot", "com">>,
  <<"tumblr", "com">>, <<"substack", "com">>, <<"wikipedia", "org">>,
  <<"wikidata", "org">>, <<"bbc", "com">>, <<"cnn", "com">>,
  <<"theguardian", "com">>, <<"example", "com">>, <<"example", "org">>,
  <<"test", "com">>, <<"localhost">>
}

\* scholarshipService.ts BLOCKED_DOMAINS, each domain as its labels
StoreBlockedDomains == {
  <<"scholarshiptab", "com">>, <<"studentscholarships", "org">>,
  <<"scholarshipnext", "com">>, <<"scholaropportunity", "com">>,
  <<"scholarships", "com">>, <<"fastweb", "com">>,
  <<"scholarshipowl", "com">>, <<"scholarshipportal", "com">>,
  <<"findaid", "org">>, <<"internationalscholarships", "com">>,
  <<"scholars4dev", "com">>, <<"afterschool", "my">>,
  <<"opportunitiesforafricans", "com">>, <<"oyaop", "com">>,
  <<"aseanop", "com">>, <<"marj3", "com">>, <<"opportunitydesk", "org">>,
  <<"scholarshipsads", "com">>, <<"scholarshipscorner", "website">>,
  <<"grantfinder", "com">>, <<"scholarshipslab", "com">>,
  <<"uscholarships", "us">>, <<"scholarshipau", "com">>,
  <<"happyfacetravels", "com">>, <<"worldscholarshipforum", "com">>,
  <<"scholarshipscafe", "com">>, <<"scholarsme", "com">>,
  <<"myschoolscholarship", "com">>, <<"facebook", "com">>,
  <<"twitter", "com">>, <<"x", "com">>, <<"linkedin", "com">>,
  <<"instagram", "com">>, <<"youtube", "com">>, <<"tiktok", "com">>,
  <<"reddit", "com">>, <<"quora", "com">>, <<"pinterest", "com">>,
  <<"medium", "com">>, <<"wordpress", "com">>, <<"blogspot", "com">>,
  <<"tumblr", "com">>, <<"substack", "com">>, <<"wikipedia", "org">>,
  <<"wikidata", "org">>, <<"bbc", "com">>, <<"cnn", "com">>,
  <<"theguardian", "com">>, <<"example", "com">>, <<"example", "org">>,
  <<"test", "com">>, <<"localhost">>
}

LowerLabel(l) ==
  CASE l = "WWW" -> "www"
    [] l = "MIT" -> "mit"
    [] l = "Scholarships" -> "scholarships"
    [] OTHER -> l

\* URL.hostname (the parser lower-cases the host) followed by toLowerCase()
HostLower(link) == [i \in 1..Len(link.host) |-> LowerLabel(link.host[i])]

\* host.replace(/^www\./, "")
StripWww(h) == IF Len(h) > 1 /\ h[1] = "www" THEN Tail(h) ELSE h

\* host === blocked || host.endsWith("." + blocked)
HostMatches(h, blocked) ==
  /\ Len(h) >= Len(blocked)
  /\ SubSeq(h, Len(h) - Len(blocked) + 1, Len(h)) = blocked

\* url.pathname.toLowerCase().endsWith(".pdf")
PathIsPdf(link) == ToLower(link.ext) = <<"p", "d", "f">>

\* String.prototype.trim on a link string
TrimLink(link) == [link EXCEPT !.pad = FALSE]

\* a faulty variant of isOfficialDirectLink: only the blocked hosts
\* themselves are refused, not their subdomains
isOfficialDirectLinkExactHost(link) ==
  /\ ~(link.kind = "empty" /\ ~link.pad)
  /\ link.kind = "url"
  /\ link.proto \in {"https:", "http:"}
  /\ StripWww(HostLower(link)) \notin BLOCKED_DOMAINS
  /\ ~PathIsPdf(link)

\* a faulty variant of isValidApplicationLink: the extension of the path is
\* compared as it is written
isValidApplicationLinkPdfAsWritten(url) ==
  /\ url.kind # "empty"
  /\ url.kind = "url"
  /\ url.proto \in {"http:", "https:"}
  /\ url.ext # <<"p", "d", "f">>
  /\ \A blocked \in StoreBlockedDomains :
       ~HostMatches(StripWww(HostLower(url)), blocked)

\* isOfficialDirectLink(link) of utils.ts
isOfficialDirectLink(link) ==
  /\ ~(link.kind = "empty" /\ ~link.pad)
  /\ link.kind = "url"
  /\ link.proto \in {"https:", "http:"}
  /\ \A blocked \in BLOCKED_DOMAINS : ~HostMatches(StripWww(HostLower(link)), blocked)
  /\ ~PathIsPdf(link)

\* isValidApplicationLink(url) of scholarshipService.ts
isValidApplicationLink(url) ==
  /\ url.kind # "empty"
  /\ url.kind = "url"
  /\ url.proto \in {"http:", "https:"}
  /\ ~PathIsPdf(url)
  /\ \A blocked \in StoreBlockedDomains :
       ~HostMatches(StripWww(HostLower(url)), blocked)

\* ------------------------------------------------------------------ state

VARIABLES
  now,                \* the clock read by new Date()
  env,                \* process.env: AI_PROVIDER and the providers that have an API key
  aiServiceInstance,  \* index.ts: the lazy singleton, NoInstance or a manager
  runIndex,           \* scheduler.ts: let runIndex
  fetchLogs,          \* the FetchLog collection; a document's id is its position
  scholarships,       \* the Scholarship collection, a set of documents
  nextId,             \* the next ObjectId the database hands out
  cyc,                \* per invocation slot: program counter and locals
  faults,             \* database operations that have rejected so far
  admin,              \* administrative writes performed so far
  started             \* runFetchCycle() invocations so far

vars == <<now, env, aiServiceInstance, runIndex, fetchLogs, scholarships, nextId,
          cyc, faults, admin, started>>

\* ------------------------------------------------------------------ bounds

Procs == {1, 2}
MaxRuns == 2
MaxFaults == 2
MaxAdmin == 2
MaxResults == 1

\* ------------------------------------------------------------------ store-side validation

MinTitleLen == 10
MinOrgLen == 3
MinDescLen == 50
StoreMaxYears == 3

\* validateScholarshipData(s): "valid" or the reason of the rejection
validateScholarshipData(s) ==
  CASE s.title = <<>> \/ Len(s.title) < MinTitleLen -> "Title too short or missing"
    [] s.organization = <<>> \/ Len(s.organization) < MinOrgLen ->
         "Organization too short or missing"
    [] s.description = <<>> \/ Len(s.description) < MinDescLen ->
         "Description too short or missing eligibility criteria"
    [] ~isValidApplicationLink(s.link) -> "Invalid or non-direct application link"
    [] DateLt(DateOf(s.deadline), now) -> "Deadline is in the past"
    [] DateGt(DateOf(s.deadline), EndOfYearPlus(now, StoreMaxYears)) ->
         "Deadline too far in future"
    [] OTHER -> "valid"

\* ------------------------------------------------------------------ the Scholarship collection

NoDoc == [_id |-> 0]

\* s.amount?.trim() || fallback
AmountOr(amount, fallback) == IF Trim(amount) # <<>> THEN Trim(amount) ELSE fallback

Varies == <<"V", "a", "r", "i", "e", "s">>

\* the filter of Scholarship.findOne in storeScholarships: title and
\* organization matched case-insensitively against the trimmed candidate
FindMatches(s) ==
  {d \in scholarships :
     /\ RegexMatchI(Trim(s.title), d.title)
     /\ RegexMatchI(Trim(s.organization), d.organization)}

\* a faulty variant of IndexConflict: the collection has no unique index
NoUniqueIndex(title, organization, deadline, id) == FALSE

\* ScholarshipSchema.index({title: 1, organization: 1, deadline: 1}, {unique: true}):
\* does a document with these key values, other than document id, exist?
IndexConflict(title, organization, deadline, id) ==
  \E d \in scholarships :
     /\ d._id # id
     /\ d.title = title
     /\ d.organization = organization
     /\ d.deadline = deadline

\* a faulty variant of NewDocument: the flag is taken from the defaults of an
\* administrative record
NewDocumentVerified(s, source, id) ==
  [_id |-> id, title |-> Trim(s.title), organization |-> Trim(s.organization),
   country |-> Trim(s.country), level |-> s.level, field |-> Trim(s.field),
   category |-> s.category, deadline |-> DateOf(s.deadline),
   description |-> Trim(s.description), link |-> TrimLink(s.link),
   amount |-> AmountOr(s.amount, Varies),
   currency |-> IF s.currency # "" THEN s.currency ELSE "USD",
   is_verified |-> TRUE, source |-> source, updated_at |-> now]

\* the document Scholarship.create builds in storeScholarships
NewDocument(s, source, id) ==
  [_id |-> id,
   title |-> Trim(s.title),
   organization |-> Trim(s.organization),
   country |-> Trim(s.country),
   level |-> s.level,
   field |-> Trim(s.field),
   category |-> s.category,
   deadline |-> DateOf(s.deadline),
   description |-> Trim(s.description),
   link |-> TrimLink(s.link),
   amount |-> AmountOr(s.amount, Varies),
   currency |-> IF s.currency # "" THEN s.currency ELSE "USD",
   is_verified |-> FALSE,
   source |-> source,
   updated_at |-> now]

\* a faulty variant of NeedsUpdate: every matching candidate is merged
AlwaysNeedsUpdate(s, exists) == TRUE

\* the condition under which storeScholarships updates the matched document
NeedsUpdate(s, exists) ==
  \/ DateGt(DateOf(s.deadline), exists.deadline)
  \/ Len(Trim(s.description)) > Len(exists.description)

\* a faulty variant of MergeInto: the incoming deadline and description
\* always replace the stored ones
MergeOverwrites(d, s, exists) ==
  [d EXCEPT
     !.deadline = DateOf(s.deadline),
     !.description = Trim(s.description),
     !.link = IF isValidApplicationLink(s.link) THEN TrimLink(s.link) ELSE exists.link,
     !.amount = AmountOr(s.amount, exists.amount),
     !.updated_at = now]

\* a faulty variant of MergeInto: the stored document is replaced by the
\* candidate instead of having four of its fields set
MergeReplacesDocument(d, s, exists) == NewDocument(s, d.source, d._id)

\* a faulty variant of MergeInto: the stored document is removed and the
\* candidate is stored as a document of its own
MergeAsNewDocument(d, s, exists) == NewDocument(s, d.source, d._id + 100)

\* the $set of Scholarship.updateOne in storeScholarships, applied to the
\* stored document d; the values come from the snapshot findOne returned
MergeInto(d, s, exists) ==
  [d EXCEPT
     !.deadline = IF DateGt(DateOf(s.deadline), exists.deadline)
                    THEN DateOf(s.deadline) ELSE exists.deadline,
     !.description = IF Len(Trim(s.description)) > Len(exists.description)
                       THEN Trim(s.description) ELSE exists.description,
     !.link = IF isValidApplicationLink(s.link) THEN TrimLink(s.link) ELSE exists.link,
     !.amount = AmountOr(s.amount, exists.amount),
     !.updated_at = now]

\* ------------------------------------------------------------------ invocation slots

\* The locals of one runFetchCycle() / storeScholarships() invocation.  The
\* fields inserted, merged, conflicts, faulted, foreign, pre, returned and answer (what
\* the last provider call brought) record what happened to the invocation;
\* the program does not read them.
IdleProc ==
  [pc |-> "idle", caller |-> "none", qset |-> 0, qi |-> 0, logId |-> 0,
   provider |-> "", all |-> <<>>, list |-> <<>>, i |-> 0,
   added |-> 0, duped |-> 0, rejected |-> 0, source |-> [provider |-> "", batch |-> 0],
   exists |-> NoDoc, err |-> "", result |-> "none",
   inserted |-> 0, merged |-> 0, conflicts |-> 0, faulted |-> FALSE, foreign |-> FALSE,
   pre |-> "none", returned |-> 0,
   win |-> 0, checks |-> <<>>, verified |-> <<>>,
   answer |-> [api |-> "none", text |-> "none", block |-> "none", whole |-> "none",
               items |-> <<>>],
   url |-> [kind |-> "empty", proto |-> "", host |-> <<>>, ext |-> <<>>, pad |-> FALSE],
   official |-> FALSE, valid |-> FALSE]

StorePcs == {"find", "update", "create"}

\* the locals of a call go out of scope when it returns or throws
OutOfScope(rec) ==
  [rec EXCEPT !.qset = 0, !.qi = 0, !.all = <<>>, !.list = <<>>, !.i = 0,
              !.source = IdleProc.source, !.exists = NoDoc,
              !.win = 0, !.checks = <<>>, !.verified = <<>>,
              !.url = IdleProc.url, !.official = FALSE, !.valid = FALSE]

\* another actor wrote the Scholarship collection while q was inside storeScholarships
NoteWrite(c, p) ==
  [q \in Procs |->
     IF q # p /\ c[q].pc \in StorePcs THEN [c[q] EXCEPT !.foreign = TRUE] ELSE c[q]]

\* how the first candidate of a call relates to the collection when the call starts
Relation(s) ==
  IF validateScholarshipData(s) # "valid" THEN "invalid"
  ELSE IF FindMatches(s) = {} THEN "fresh"
  ELSE IF \A d \in FindMatches(s) :
            [NewDocument(s, d.source, d._id) EXCEPT !.updated_at = d.updated_at] = d
         THEN "stored"
  ELSE "other"

\* ------------------------------------------------------------------ storeScholarships

\* the index of the first candidate at or after i that passes validation
RECURSIVE NextValid(_, _)
NextValid(list, i) ==
  IF i > Len(list) THEN i
  ELSE IF validateScholarshipData(list[i]) = "valid" THEN i
  ELSE NextValid(list, i + 1)

\* where an invocation goes when storeScholarships returns: runFetchCycle
\* awaits completeFetchLog, a direct caller has its result
StoreReturns(rec) ==
  IF rec.caller = "cycle" THEN [rec EXCEPT !.pc = "complete"]
  ELSE OutOfScope([rec EXCEPT !.pc = "done", !.result = "resolved"])

\* where it goes when storeScholarships throws: the catch block of
\* runFetchCycle awaits failFetchLog, a direct caller sees the rejection
StoreThrows(rec, message) ==
  IF rec.caller = "cycle" THEN OutOfScope([rec EXCEPT !.pc = "fail", !.err = message])
  ELSE OutOfScope([rec EXCEPT !.pc = "done", !.result = "rejected", !.err = message])

\* the for loop of storeScholarships from candidate i on, up to its next
\* await: candidates failing validation are counted rejected and skipped, the
\* first valid one is looked up with findOne; past the end, the call returns
LoopFrom(rec, i) ==
  LET j == NextValid(rec.list, i)
      r == [rec EXCEPT !.rejected = @ + (j - i), !.i = j, !.exists = NoDoc]
  IN IF j <= Len(rec.list) THEN [r EXCEPT !.pc = "find"] ELSE StoreReturns(r)

\* the call storeScholarships(list, source) up to its first await
StoreBegin(rec, list, source) ==
  [LoopFrom([rec EXCEPT !.list = list, !.source = source, !.added = 0,
                        !.duped = 0, !.rejected = 0], 1)
     EXCEPT !.pre = IF list = <<>> THEN "none" ELSE Relation(list[1])]

\* a faulty variant of FoundExisting: a candidate found in the collection is
\* counted as added
FoundExistingCountsAdded(rec, d) ==
  IF NeedsUpdate(rec.list[rec.i], d)
    THEN [rec EXCEPT !.pc = "update", !.exists = d]
    ELSE LoopFrom([rec EXCEPT !.added = @ + 1], rec.i + 1)

\* findOne answers with a matching document: the merge branch up to
\* updateOne, or the candidate is counted a duplicate and the loop goes on
FoundExisting(rec, d) ==
  IF NeedsUpdate(rec.list[rec.i], d)
    THEN [rec EXCEPT !.pc = "update", !.exists = d]
    ELSE LoopFrom([rec EXCEPT !.duped = @ + 1], rec.i + 1)

\* findOne answers
FindReturns(p) ==
  /\ cyc[p].pc = "find"
  /\ LET rec == cyc[p]
         m == FindMatches(rec.list[rec.i])
     IN \/ /\ m = {}
           /\ cyc' = [cyc EXCEPT ![p] = [rec EXCEPT !.pc = "create"]]
        \/ \E d \in m : cyc' = [cyc EXCEPT ![p] = FoundExisting(rec, d)]
  /\ UNCHANGED <<now, env, aiServiceInstance, runIndex, fetchLogs, scholarships,
                 nextId, faults, admin, started>>

\* updateOne answers: the $set is applied to the document of that id, if it
\* is still there; then duped++ and the loop goes on
UpdateReturns(p) ==
  /\ cyc[p].pc = "update"
  /\ LET rec == cyc[p]
         s == rec.list[rec.i]
         after == {IF d._id = rec.exists._id THEN MergeInto(d, s, rec.exists) ELSE d :
                     d \in scholarships}
     IN /\ \A d \in scholarships :
             d._id = rec.exists._id =>
               LET n == MergeInto(d, s, rec.exists)
               IN ~IndexConflict(n.title, n.organization, n.deadline, n._id)
        /\ scholarships' = after
        /\ cyc' = [NoteWrite(cyc, p) EXCEPT
                     ![p] = LoopFrom([rec EXCEPT !.duped = @ + 1, !.merged = @ + 1],
                                     rec.i + 1)]
  /\ UNCHANGED <<now, env, aiServiceInstance, runIndex, fetchLogs, nextId, faults, admin, started>>

\* updateOne is refused by the unique index (E11000): storeScholarships has no
\* handler around it, the error leaves the function
UpdateConflicts(p) ==
  /\ cyc[p].pc = "update"
  /\ LET rec == cyc[p]
         s == rec.list[rec.i]
     IN /\ \E d \in scholarships :
             /\ d._id = rec.exists._id
             /\ LET n == MergeInto(d, s, rec.exists)
                IN IndexConflict(n.title, n.organization, n.deadline, n._id)
        /\ cyc' = [cyc EXCEPT ![p] = StoreThrows([rec EXCEPT !.conflicts = @ + 1],
                                                 "E11000 duplicate key")]
  /\ UNCHANGED <<now, env, aiServiceInstance, runIndex, fetchLogs, scholarships,
                 nextId, faults, admin, started>>

\* Scholarship.create answers: the document is inserted; added++
CreateReturns(p) ==
  /\ cyc[p].pc = "create"
  /\ LET rec == cyc[p]
         doc == NewDocument(rec.list[rec.i], rec.source, nextId)
     IN /\ ~IndexConflict(doc.title, doc.organization, doc.deadline, doc._id)
        /\ scholarships' = scholarships \cup {doc}
        /\ nextId' = nextId + 1
        /\ cyc' = [NoteWrite(cyc, p) EXCEPT
                     ![p] = LoopFrom([rec EXCEPT !.added = @ + 1, !.inserted = @ + 1],
                                     rec.i + 1)]
  /\ UNCHANGED <<now, env, aiServiceInstance, runIndex, fetchLogs, faults, admin, started>>

\* a faulty variant of OnDuplicateKey: the catch block rethrows every error
DuplicateKeyRethrown(rec) ==
  StoreThrows([rec EXCEPT !.conflicts = @ + 1], "E11000 duplicate key")

\* the catch block of the insert on error.code === 11000: duped++ and continue
OnDuplicateKey(rec) ==
  LoopFrom([rec EXCEPT !.duped = @ + 1, !.conflicts = @ + 1], rec.i + 1)

\* Scholarship.create is refused by the unique index: error.code === 11000,
\* duped++ and continue
CreateConflicts(p) ==
  /\ cyc[p].pc = "create"
  /\ LET rec == cyc[p]
         doc == NewDocument(rec.list[rec.i], rec.source, nextId)
     IN /\ IndexConflict(doc.title, doc.organization, doc.deadline, doc._id)
        /\ cyc' = [cyc EXCEPT ![p] = OnDuplicateKey(rec)]
  /\ UNCHANGED <<now, env, aiServiceInstance, runIndex, fetchLogs, scholarships,
                 nextId, faults, admin, started>>

\* Scholarship.create rejects with another error: it is logged ("[Store] DB
\* error") and the loop goes on with the next candidate, nothing counted
CreateFails(p) ==
  /\ cyc[p].pc = "create"
  /\ faults < MaxFaults
  /\ faults' = faults + 1
  /\ cyc' = [cyc EXCEPT ![p] = LoopFrom([cyc[p] EXCEPT !.faulted = TRUE], cyc[p].i + 1)]
  /\ UNCHANGED <<now, env, aiServiceInstance, runIndex, fetchLogs, scholarships,
                 nextId, admin, started>>

\* findOne or updateOne rejects: the error leaves storeScholarships
LookupOrUpdateFails(p) ==
  /\ cyc[p].pc \in {"find", "update"}
  /\ faults < MaxFaults
  /\ faults' = faults + 1
  /\ cyc' = [cyc EXCEPT ![p] = StoreThrows([cyc[p] EXCEPT !.faulted = TRUE],
                                           "database error")]
  /\ UNCHANGED <<now, env, aiServiceInstance, runIndex, fetchLogs, scholarships,
                 nextId, admin, started>>

\* ------------------------------------------------------------------ administrative writes

\* a value counts as present in `data.f && ...` when it is neither missing nor ""
Truthy(data, f) ==
  /\ f \in DOMAIN data
  /\ IF f = "link" THEN ~(data[f].kind = "empty" /\ ~data[f].pad) ELSE data[f] # <<>>

\* the checks addScholarship makes before it writes
AddAccepts(data) ==
  /\ isValidApplicationLink(data.link)
  /\ data.title # <<>> /\ Len(Trim(data.title)) >= MinTitleLen
  /\ data.description # <<>> /\ Len(Trim(data.description)) >= MinDescLen
  /\ data.organization # <<>> /\ Len(Trim(data.organization)) >= MinOrgLen
  /\ ~DateLt(DateOf(data.deadline), now)

\* the document addScholarship creates
AddDocument(data, id) ==
  [_id |-> id,
   title |-> Trim(data.title),
   organization |-> Trim(data.organization),
   country |-> data.country,
   level |-> data.level,
   field |-> data.field,
   category |-> data.category,
   deadline |-> DateOf(data.deadline),
   description |-> Trim(data.description),
   link |-> TrimLink(data.link),
   amount |-> data.amount,
   currency |-> data.currency,
   is_verified |-> data.is_verified # 0,
   source |-> data.source,
   updated_at |-> now]

\* the checks updateScholarship makes before it writes
UpdateAccepts(data) ==
  /\ Truthy(data, "link") => isValidApplicationLink(data.link)
  /\ Truthy(data, "title") => Len(Trim(data.title)) >= MinTitleLen
  /\ Truthy(data, "description") => Len(Trim(data.description)) >= MinDescLen
  /\ Truthy(data, "organization") => Len(Trim(data.organization)) >= MinOrgLen
  /\ "deadline" \in DOMAIN data => ~DateLt(DateOf(data.deadline), now)

\* updateData of updateScholarship: a copy of data with the deadline parsed and
\* the present string fields trimmed
UpdateData(data) ==
  [f \in DOMAIN data |->
     CASE f = "deadline" -> DateOf(data[f])
       [] f \in {"title", "organization", "description"} /\ Truthy(data, f) -> Trim(data[f])
       [] f = "link" /\ Truthy(data, f) -> TrimLink(data[f])
       [] OTHER -> data[f]]

\* { $set: updateData } with updated_at, applied to document d
SetFields(d, u) ==
  [f \in DOMAIN d |->
     IF f = "updated_at" THEN now ELSE IF f \in DOMAIN u THEN u[f] ELSE d[f]]

\* addScholarship(data); a refused call (a throw of its own checks or of the
\* unique index) changes nothing
addScholarship(data) ==
  /\ admin < MaxAdmin
  /\ AddAccepts(data)
  /\ LET doc == AddDocument(data, nextId)
     IN /\ ~IndexConflict(doc.title, doc.organization, doc.deadline, doc._id)
        /\ scholarships' = scholarships \cup {doc}
  /\ nextId' = nextId + 1
  /\ admin' = admin + 1
  /\ cyc' = NoteWrite(cyc, 0)
  /\ UNCHANGED <<now, env, aiServiceInstance, runIndex, fetchLogs, faults, started>>

\* updateScholarship(id, data) on a stored document
updateScholarship(id, data) ==
  /\ admin < MaxAdmin
  /\ UpdateAccepts(data)
  /\ \E d \in scholarships :
       /\ d._id = id
       /\ LET n == SetFields(d, UpdateData(data))
          IN /\ ~IndexConflict(n.title, n.organization, n.deadline, n._id)
             /\ scholarships' = (scholarships \ {d}) \cup {n}
  /\ admin' = admin + 1
  /\ cyc' = NoteWrite(cyc, 0)
  /\ UNCHANGED <<now, env, aiServiceInstance, runIndex, fetchLogs, nextId, faults, started>>

\* deleteScholarship(id) on a stored document
deleteScholarship(id) ==
  /\ admin < MaxAdmin
  /\ \E d \in scholarships : d._id = id /\ scholarships' = scholarships \ {d}
  /\ admin' = admin + 1
  /\ cyc' = NoteWrite(cyc, 0)
  /\ UNCHANGED <<now, env, aiServiceInstance, runIndex, fetchLogs, nextId, faults, started>>

\* ------------------------------------------------------------------ inputs

Dates == [past |-> 20250601, today |-> 20251215, jan |-> 20260101, feb |-> 20260201,
          yesterday |-> 20251214, tomorrow |-> 20251216, in3years |-> 20281215,
          in3years1day |-> 20281216, endOfYear3 |-> 20281231, year4 |-> 20290101]

\* noon of a date
Noon(d) == DateOf(d) + 1

Title1 == Rep("a", 10)
Title1Upper == <<"A">> \o Rep("a", 9)
Title2 == Rep("b", 10)
Org1 == Rep("o", 3)
Desc60 == Rep("d", 60)
Desc61 == Rep("d", 61)
\* 50 characters of which the last ten are blanks: 40 once trimmed
Desc40Padded == Rep("d", 40) \o Rep(" ", 10)

MitApply == [kind |-> "url", proto |-> "https:", host |-> <<"mit", "edu">>,
             ext |-> <<>>, pad |-> FALSE]
MitApplyPadded == [MitApply EXCEPT !.pad = TRUE]
BlockedLink == [kind |-> "url", proto |-> "https:", host |-> <<"scholarships", "com">>,
                ext |-> <<>>, pad |-> FALSE]
EmptyLink == [kind |-> "empty", proto |-> "", host |-> <<>>, ext |-> <<>>, pad |-> FALSE]

CandA ==
  [title |-> Title1, organization |-> Org1, country |-> <<"U", "S">>, level |-> "Master",
   field |-> <<"A", "n", "y">>, category |-> "Research", deadline |-> Dates.jan,
   description |-> Desc60, link |-> MitApply, amount |-> <<"5">>, currency |-> "USD"]
\* the same identity key as CandA in another letter case, a later deadline and
\* a description that is shorter once trimmed
CandB == [CandA EXCEPT !.title = Title1Upper, !.deadline = Dates.feb,
                       !.description = Desc40Padded, !.link = MitApplyPadded,
                       !.amount = <<" ">>]
\* the same key and deadline as CandA, a longer description
CandC == [CandA EXCEPT !.description = Desc61]
\* another scholarship
CandD == [CandA EXCEPT !.title = Title2]
\* refused by validateScholarshipData
CandBlocked == [CandA EXCEPT !.link = BlockedLink]

StoreInputs == {<<CandA>>, <<CandB>>, <<CandC>>, <<CandBlocked, CandD>>}

DirectSource == [provider |-> "grok", batch |-> 1]

\* the source "manual" of a record added by an administrator
ManualSource == [provider |-> "manual", batch |-> 0]

AdminAdds ==
  {[CandA EXCEPT !.deadline = Dates.feb] @@ [is_verified |-> 1, source |-> ManualSource]}

AdminUpdates == {[link |-> EmptyLink], [link |-> BlockedLink], [title |-> Title1Upper]}

\* a parsed item of a provider answer: the fields and the keys it lacks
Item(fields) == fields @@ [missing |-> {}]

ItemPast == Item([CandA EXCEPT !.title = Title2, !.deadline = Dates.past])
ItemBlocked == Item([CandA EXCEPT !.title = Title2, !.link = BlockedLink])
ItemGood == Item(CandA)
\* the identity key of ItemGood in another letter case, with a later deadline
ItemGoodUpper == Item([CandB EXCEPT !.link = MitApply])

\* what one provider call may answer: nothing, the three items of the
\* end-to-end scenario, a case variant of its valid item
Responses == {<<>>, <<ItemPast, ItemBlocked, ItemGood>>, <<ItemGoodUpper>>}

\* ------------------------------------------------------------------ the provider manager

NoInstance == [made |-> FALSE, provider |-> "", keys |-> {}, current |-> "null"]

\* getProviderName() of the provider classes
ProviderClassName(provider) ==
  CASE provider = "openai" -> "OpenAI"
    [] provider = "gemini" -> "Gemini"
    [] provider = "grok" -> "Grok"
    [] OTHER -> "null"

\* String.prototype.toLowerCase on a provider name
LowerName(name) ==
  CASE name = "OpenAI" -> "openai"
    [] name = "Gemini" -> "gemini"
    [] name = "Grok" -> "grok"
    [] name = "None" -> "none"
    [] OTHER -> name

\* the providers the manager knows
ProviderNames == {"openai", "gemini", "grok"}

\* config.provider as the constructor reads it: AI_PROVIDER || "grok"
ConfiguredProvider == IF env.provider = "" THEN "grok" ELSE env.provider

\* initializeProvider(): the provider object the switch statement creates for
\* config.provider out of the keys of config, "null" when its API key is
\* missing or the name is unknown
initializeProvider(provider, keys) ==
  IF provider \in ProviderNames /\ provider \in keys
    THEN ProviderClassName(provider) ELSE "null"

\* a faulty variant of the constructor: when the selected provider cannot be
\* created, a provider that has a key is taken instead
ConstructFallsBack ==
  IF initializeProvider(ConfiguredProvider, env.keys) # "null"
    THEN [made |-> TRUE, provider |-> ConfiguredProvider, keys |-> env.keys,
          current |-> initializeProvider(ConfiguredProvider, env.keys)]
  ELSE IF env.keys = {} THEN NoInstance
  ELSE LET other == CHOOSE n \in ProviderNames : n \in env.keys
       IN [made |-> TRUE, provider |-> other, keys |-> env.keys,
           current |-> ProviderClassName(other)]

\* new AIServiceManager(): the manager, its config read from process.env, or
\* NoInstance when the constructor throws (initializeProvider found no
\* provider)
Construct ==
  IF initializeProvider(ConfiguredProvider, env.keys) = "null" THEN NoInstance
  ELSE [made |-> TRUE, provider |-> ConfiguredProvider, keys |-> env.keys,
        current |-> initializeProvider(ConfiguredProvider, env.keys)]

\* getAIService(): the singleton, constructed on first use; NoInstance stands
\* for the constructor's throw, after which aiServiceInstance is still null
getAIService == IF aiServiceInstance.made THEN aiServiceInstance ELSE Construct

\* switchProvider(provider) on a manager: config.provider and currentProvider
\* are assigned before initializeProvider() runs, so they keep their new
\* values when it throws (current = "null")
switchProvider(manager, provider) ==
  [manager EXCEPT !.provider = provider,
                  !.current = initializeProvider(provider, manager.keys)]

\* getAvailableProviders() on a manager
getAvailableProviders(manager) ==
  [n \in ProviderNames |->
     [configured |-> n \in manager.keys, current |-> manager.provider = n]]

\* AIServiceManager.getProviderName()
getProviderName(manager) == IF manager.current # "null" THEN manager.current ELSE "None"

\* ------------------------------------------------------------------ provider-side validation

Levels == {"Bachelor", "Master", "PhD", "Postdoctoral", "Any"}
Categories == {"Merit-Based", "Need-Based", "Research", "Sports", "Women in STEM",
               "International", "Government", "Private"}
Currencies == {"USD", "EUR", "GBP", "AUD", "CAD", "JPY", "CNY", "KRW", "TRY", "SEK",
               "NOK", "DKK", "CHF", "NZD", "SGD", "HKD", "INR", "Other"}
MinCountryLen == 2
MinFieldLen == 2
MaxYearsAhead == 3

\* a deadline text that does not have the shape YYYY-MM-DD
Malformed == 0

\* ParsedScholarshipSchema.safeParse(item).success; item.missing names the
\* keys the item lacks
SchemaAccepts(item) ==
  /\ item.missing \cap {"title", "organization", "country", "level", "field",
                        "category", "deadline", "description", "link"} = {}
  /\ Len(item.title) >= MinTitleLen
  /\ Len(item.organization) >= MinOrgLen
  /\ Len(item.country) >= MinCountryLen
  /\ item.level \in Levels
  /\ Len(item.field) >= MinFieldLen
  /\ item.category \in Categories
  /\ item.deadline # Malformed
  /\ Len(item.description) >= MinDescLen
  /\ item.link.kind = "url"
  /\ item.link.proto \in {"http:", "https:"} /\ ~item.link.pad
  /\ "amount" \in item.missing \/ Len(item.amount) >= 1
  /\ "currency" \in item.missing \/ item.currency \in Currencies

\* result.data: the item with the schema's defaults filled in
SchemaData(item) ==
  [title |-> item.title, organization |-> item.organization, country |-> item.country,
   level |-> item.level, field |-> item.field, category |-> item.category,
   deadline |-> item.deadline, description |-> item.description, link |-> item.link,
   amount |-> IF "amount" \in item.missing THEN Varies ELSE item.amount,
   currency |-> IF "currency" \in item.missing THEN "USD" ELSE item.currency]

\* a faulty variant of ProviderAccepts: the latest deadline accepted is the
\* end of the third year to come, as in validateScholarshipData
ProviderAcceptsToYearEnd(item) ==
  /\ SchemaAccepts(item)
  /\ isOfficialDirectLink(item.link)
  /\ DateOf(item.deadline) # NaN /\ ~DateLt(DateOf(item.deadline), now)
  /\ ~DateGt(DateOf(item.deadline), EndOfYearPlus(now, StoreMaxYears))

\* the checks of the validation loop of searchScholarships on one parsed item
ProviderAccepts(item) ==
  /\ SchemaAccepts(item)
  /\ isOfficialDirectLink(item.link)
  /\ DateOf(item.deadline) # NaN /\ ~DateLt(DateOf(item.deadline), now)
  /\ ~DateGt(DateOf(item.deadline), PlusYears(now, MaxYearsAhead))

\* a faulty variant of ValidateItems: the loop ends at the first item refused
RECURSIVE ValidateUntilRefused(_)
ValidateUntilRefused(items) ==
  IF items = <<>> \/ ~ProviderAccepts(Head(items)) THEN <<>>
  ELSE <<SchemaData(Head(items))>> \o ValidateUntilRefused(Tail(items))

\* the validation loop of searchScholarships: the accepted items, in order
RECURSIVE ValidateItems(_)
ValidateItems(items) ==
  IF items = <<>> THEN <<>>
  ELSE (IF ProviderAccepts(Head(items)) THEN <<SchemaData(Head(items))>> ELSE <<>>)
         \o ValidateItems(Tail(items))

\* ------------------------------------------------------------------ runFetchCycle

NumQuerySets == 5
QueriesPerSet == 4
BatchModulus == 5
batchSize == 5

\* getSearchQueries(runIndex): the index of the query set
getSearchQueries(index) == index % NumQuerySets

\* `${provider.toLowerCase()}-web-search-batch-${runIndex % 5 + 1}`
SourceString(provider, index) ==
  [provider |-> LowerName(provider), batch |-> (index % BatchModulus) + 1]

NewFetchLog(qset) ==
  [search_queries |-> qset, status |-> "running", scholarships_found |-> 0,
   scholarships_added |-> 0, error |-> ""]

\* a faulty variant of CompletedLog: the counts are not written
CompletedLogWithoutCounts(log, found, added) == [log EXCEPT !.status = "completed"]

\* a faulty variant of CompletedLog: every candidate handed to the store is
\* recorded as added
CompletedLogAllAdded(log, found, added) ==
  [log EXCEPT !.status = "completed", !.scholarships_found = found,
              !.scholarships_added = found]

\* the $set of completeFetchLog
CompletedLog(log, found, added) ==
  [log EXCEPT !.status = "completed", !.scholarships_found = found,
              !.scholarships_added = added]

\* the $set of failFetchLog
FailedLog(log, error) == [log EXCEPT !.status = "failed", !.error = error]

\* the promise of runFetchCycle settles
Resolved(rec) == OutOfScope([rec EXCEPT !.pc = "done", !.result = "resolved"])
Rejected(rec, message) ==
  OutOfScope([rec EXCEPT !.pc = "done", !.result = "rejected", !.err = message])

\* the catch block of runFetchCycle up to its await of failFetchLog
Caught(rec, message) == OutOfScope([rec EXCEPT !.pc = "fail", !.err = message])

\* runFetchCycle() is called (cron tick, start-up timer, POST /api/fetch-now,
\* seed script): getSearchQueries(runIndex), then the await of createFetchLog
Invoke(p) ==
  /\ cyc[p].pc \in {"idle", "done"}
  /\ started < MaxRuns
  /\ started' = started + 1
  /\ cyc' = [cyc EXCEPT ![p] = [IdleProc EXCEPT !.pc = "createLog", !.caller = "cycle",
                                                !.qset = getSearchQueries(runIndex)]]
  /\ UNCHANGED <<now, env, aiServiceInstance, runIndex, fetchLogs, scholarships,
                 nextId, faults, admin>>

\* lines 19-26 of scheduler.ts once createFetchLog has answered with the id:
\* getProviderName() outside the try block, then inside it
\* runSearchBatchWithAI(queries) up to the first provider call
AfterLogCreated(rec, id, manager) ==
  IF ~manager.made
    THEN Rejected([rec EXCEPT !.logId = id], "[AI Service] Failed to initialize provider")
  ELSE IF manager.current = "null"
    THEN Caught([rec EXCEPT !.logId = id, !.provider = getProviderName(manager)],
                "[AI Service] No provider initialized")
  ELSE [rec EXCEPT !.logId = id, !.provider = getProviderName(manager),
                   !.pc = "search", !.qi = 1, !.all = <<>>]

\* createFetchLog answers: the run record exists in status running
CreateLogReturns(p) ==
  /\ cyc[p].pc = "createLog"
  /\ fetchLogs' = Append(fetchLogs, NewFetchLog(cyc[p].qset))
  /\ aiServiceInstance' = getAIService
  /\ cyc' = [cyc EXCEPT ![p] = AfterLogCreated(cyc[p], Len(fetchLogs) + 1, getAIService)]
  /\ UNCHANGED <<now, env, runIndex, scholarships, nextId, faults, admin, started>>

\* createFetchLog rejects: the await is outside the try block
CreateLogFails(p) ==
  /\ cyc[p].pc = "createLog"
  /\ faults < MaxFaults
  /\ faults' = faults + 1
  /\ cyc' = [cyc EXCEPT ![p] = Rejected([cyc[p] EXCEPT !.faulted = TRUE], "database error")]
  /\ UNCHANGED <<now, env, aiServiceInstance, runIndex, fetchLogs, scholarships,
                 nextId, admin, started>>

\* runSearchBatch after its query loop: with nothing accumulated no link is
\* checked and runFetchCycle goes on to storeScholarships in the same turn;
\* otherwise the first window of checks is awaited
AfterQueries(rec) ==
  IF rec.all = <<>>
    THEN StoreBegin(rec, <<>>, SourceString(rec.provider, runIndex))
    ELSE [rec EXCEPT !.pc = "verify"]

\* one provider call answers (searchScholarships never throws: transport and
\* parse failures give the empty list), its validated items are accumulated
\* and the 2 s pause elapses
SearchReturns(p) ==
  /\ cyc[p].pc = "search"
  /\ \E raw \in Responses :
       LET rec == cyc[p]
           results == ValidateItems(raw)
           r == [rec EXCEPT !.all = @ \o results, !.returned = @ + Len(raw)]
       IN /\ Len(r.all) <= MaxResults
          /\ cyc' = [cyc EXCEPT
                       ![p] = IF rec.qi < QueriesPerSet THEN [r EXCEPT !.qi = @ + 1]
                              ELSE AfterQueries(r)]
  /\ UNCHANGED <<now, env, aiServiceInstance, runIndex, fetchLogs, scholarships,
                 nextId, faults, admin, started>>

\* the elements of list at the positions in keep, in order
RECURSIVE Keep(_, _, _)
Keep(list, keep, i) ==
  IF i > Len(list) THEN <<>>
  ELSE (IF i \in keep THEN <<list[i]>> ELSE <<>>) \o Keep(list, keep, i + 1)

\* lines 28-35 of scheduler.ts: storeScholarships is called with the verified
\* list and a source string built from the runIndex of this moment
VerifiedThenStore(rec, verified) ==
  StoreBegin(rec, verified, SourceString(rec.provider, runIndex))

\* the link checks answer: alive is the set of positions whose link was found
\* reachable (at most batchSize links make one window)
VerifyReturns(p) ==
  /\ cyc[p].pc = "verify"
  /\ Len(cyc[p].all) <= batchSize
  /\ \E alive \in SUBSET (1..Len(cyc[p].all)) :
       cyc' = [cyc EXCEPT ![p] = VerifiedThenStore(cyc[p], Keep(cyc[p].all, alive, 1))]
  /\ UNCHANGED <<now, env, aiServiceInstance, runIndex, fetchLogs, scholarships,
                 nextId, faults, admin, started>>

\* a faulty variant of AfterComplete: control falls into the catch block
\* after the run record was completed
AfterCompleteFallsThrough(rec) == Caught(rec, "fell through")

\* line 37 of scheduler.ts answered: the rest of the try block, then runIndex++
AfterComplete(rec) == Resolved(rec)

\* completeFetchLog answers: the run record is completed with
\* found = scholarships.length and added
CompleteReturns(p) ==
  /\ cyc[p].pc = "complete"
  /\ fetchLogs' = [fetchLogs EXCEPT
                     ![cyc[p].logId] = CompletedLog(@, Len(cyc[p].list), cyc[p].added)]
  /\ cyc' = [cyc EXCEPT ![p] = AfterComplete(cyc[p])]
  /\ runIndex' = IF cyc'[p].pc = "done" THEN runIndex + 1 ELSE runIndex
  /\ UNCHANGED <<now, env, aiServiceInstance, scholarships, nextId, faults, admin,
                 started>>

\* completeFetchLog rejects: caught, failFetchLog is awaited
CompleteFails(p) ==
  /\ cyc[p].pc = "complete"
  /\ faults < MaxFaults
  /\ faults' = faults + 1
  /\ cyc' = [cyc EXCEPT ![p] = Caught([cyc[p] EXCEPT !.faulted = TRUE], "database error")]
  /\ UNCHANGED <<now, env, aiServiceInstance, runIndex, fetchLogs, scholarships,
                 nextId, admin, started>>

\* failFetchLog answers: the run record is failed with the message; runIndex++
FailReturns(p) ==
  /\ cyc[p].pc = "fail"
  /\ fetchLogs' = [fetchLogs EXCEPT ![cyc[p].logId] = FailedLog(@, cyc[p].err)]
  /\ cyc' = [cyc EXCEPT ![p] = Resolved(cyc[p])]
  /\ runIndex' = runIndex + 1
  /\ UNCHANGED <<now, env, aiServiceInstance, scholarships, nextId, faults, admin,
                 started>>

\* failFetchLog rejects inside the catch block: the error leaves runFetchCycle
FailFails(p) ==
  /\ cyc[p].pc = "fail"
  /\ faults < MaxFaults
  /\ faults' = faults + 1
  /\ cyc' = [cyc EXCEPT ![p] = Rejected([cyc[p] EXCEPT !.faulted = TRUE], "database error")]
  /\ UNCHANGED <<now, env, aiServiceInstance, runIndex, fetchLogs, scholarships,
                 nextId, admin, started>>


\* the validated items of the answers to the queries of one set, accumulated
\* in the order of the queries
Validated == [raw \in Responses |-> ValidateItems(raw)]

RECURSIVE Accumulate(_, _)
Accumulate(answers, k) ==
  IF k > Len(answers) THEN <<>>
  ELSE Validated[answers[k]] \o Accumulate(answers, k + 1)

RECURSIVE CountItems(_, _)
CountItems(answers, k) ==
  IF k > Len(answers) THEN 0 ELSE Len(answers[k]) + CountItems(answers, k + 1)

\* what the query loop of runSearchBatch can leave behind: the accumulated
\* list and the number of items the provider returned, over every way the
\* provider can answer the queries of one set
BatchOutcomes ==
  {[all |-> Accumulate(answers, 1), returned |-> CountItems(answers, 1)] :
     answers \in [1..QueriesPerSet -> Responses]}

\* runSearchBatchWithAI(queries) answers: the query loop and the link checks
\* of runSearchBatch taken as one step (they read and write nothing but the
\* locals of the call), followed by lines 28-35 of scheduler.ts
SearchBatchReturns(p) ==
  /\ cyc[p].pc = "search"
  /\ cyc[p].qi = 1
  /\ \E out \in BatchOutcomes :
       /\ Len(out.all) <= MaxResults
       /\ \E alive \in SUBSET (1..Len(out.all)) :
            cyc' = [cyc EXCEPT
                      ![p] = VerifiedThenStore(
                               [cyc[p] EXCEPT !.all = out.all, !.qi = QueriesPerSet,
                                              !.returned = out.returned],
                               Keep(out.all, alive, 1))]
  /\ UNCHANGED <<now, env, aiServiceInstance, runIndex, fetchLogs, scholarships,
                 nextId, faults, admin, started>>

\* the steps of an invocation around its search batch
ControlStep(p) ==
  \/ CreateLogReturns(p)
  \/ CreateLogFails(p)
  \/ CompleteReturns(p)
  \/ CompleteFails(p)
  \/ FailReturns(p)
  \/ FailFails(p)

\* the steps of the search batch, query by query
BatchStep(p) ==
  \/ SearchReturns(p)
  \/ VerifyReturns(p)


\* ------------------------------------------------------------------ the store under direct calls

\* a caller invokes storeScholarships(list, source)
StoreCall(p) ==
  /\ cyc[p].pc = "idle"
  /\ \E list \in StoreInputs :
       cyc' = [cyc EXCEPT ![p] = StoreBegin([cyc[p] EXCEPT !.caller = "direct"],
                                            list, DirectSource)]
  /\ UNCHANGED <<now, env, aiServiceInstance, runIndex, fetchLogs, scholarships,
                 nextId, faults, admin, started>>

AdminWrite ==
  \/ \E data \in AdminAdds : addScholarship(data)
  \/ \E id \in 1..(nextId - 1), data \in AdminUpdates : updateScholarship(id, data)
  \/ \E id \in 1..(nextId - 1) : deleteScholarship(id)

\* the database answers a call of storeScholarships
StoreStep(p) ==
  \/ FindReturns(p)
  \/ UpdateReturns(p)
  \/ CreateReturns(p)

\* the database fails a call of storeScholarships
StoreFault(p) ==
  \/ CreateFails(p)
  \/ LookupOrUpdateFails(p)

InitStore ==
  /\ now = Noon(Dates.today)
  /\ env = [provider |-> "grok", keys |-> {"grok"}]
  /\ aiServiceInstance = NoInstance
  /\ runIndex = 0
  /\ fetchLogs = <<>>
  /\ scholarships = {}
  /\ nextId = 1
  /\ cyc = [p \in Procs |-> IdleProc]
  /\ faults = 0
  /\ admin = 0
  /\ started = 0

NextStore ==
  \/ \E p \in Procs : StoreCall(p)
  \/ \E p \in Procs : StoreStep(p)
  \/ \E p \in Procs : StoreFault(p)
  \/ \E p \in Procs : UpdateConflicts(p)
  \/ \E p \in Procs : CreateConflicts(p)
  \/ AdminWrite

SpecStore == InitStore /\ [][NextStore]_vars

\* ------------------------------------------------------------------ two store calls on a stored record

\* the collection holds the record an earlier run inserted for CandA
InitMerge ==
  /\ now = Noon(Dates.today)
  /\ env = [provider |-> "grok", keys |-> {"grok"}]
  /\ aiServiceInstance = NoInstance
  /\ runIndex = 0
  /\ fetchLogs = <<>>
  /\ scholarships = {NewDocument(CandA, DirectSource, 1)}
  /\ nextId = 2
  /\ cyc = [p \in Procs |-> IdleProc]
  /\ faults = 0
  /\ admin = 0
  /\ started = 0

\* two calls of storeScholarships that may overlap (the calls of two
\* overlapping fetch cycles), the database answering every request
NextMerge ==
  \/ \E p \in Procs : StoreCall(p)
  \/ \E p \in Procs : StoreStep(p)

SpecMerge == InitMerge /\ [][NextMerge]_vars

\* ------------------------------------------------------------------ the fetch cycles

\* process.env at start-up: the selected provider has its key; the selected
\* provider has no key while another one has; no key at all
Environments ==
  {[provider |-> "", keys |-> {"grok"}],
   [provider |-> "gemini", keys |-> {"grok"}],
   [provider |-> "grok", keys |-> {}]}

\* the slot of the invocations that follow one another (cron ticks, the seed
\* script's two awaited calls)
Sequential == {1}

Init ==
  /\ now = Noon(Dates.today)
  /\ env \in Environments
  /\ aiServiceInstance = NoInstance
  /\ runIndex = 0
  /\ fetchLogs = <<>>
  /\ scholarships = {}
  /\ nextId = 1
  /\ cyc = [p \in Procs |-> IdleProc]
  /\ faults = 0
  /\ admin = 0
  /\ started = 0

\* invocations one after the other
Next ==
  \/ \E p \in Sequential : Invoke(p)
  \/ \E p \in Sequential : ControlStep(p)
  \/ \E p \in Sequential : BatchStep(p)
  \/ \E p \in Sequential : StoreStep(p)
  \/ \E p \in Sequential : StoreFault(p)

Spec == Init /\ [][Next]_vars

\* overlapping invocations: a cron tick and POST /api/fetch-now, one of each;
\* the database may fail the writes of the run records
InitOverlap == Init /\ env.provider = ""

NextOverlap ==
  \/ \E p \in Procs : cyc[p].pc = "idle" /\ Invoke(p)
  \/ \E p \in Procs : ControlStep(p)
  \/ \E p \in Procs : SearchBatchReturns(p)
  \/ \E p \in Procs : StoreStep(p)
  \/ \E p \in Procs : CreateConflicts(p)

SpecOverlap == InitOverlap /\ [][NextOverlap]_vars


\* ------------------------------------------------------------------ the link checks

\* fetch rejected instead of answering: a network error, or the abort that
\* the 8 s timer of the request fires
NoResponse == 0

\* Response.ok
Ok(status) == status >= 200 /\ status < 300

\* how the server behind a link answers: the status of its HEAD response, the
\* status of its GET response, and whether the body of the GET response is
\* sent to its end ("ends"), breaks off with an error ("breaks") or is kept
\* coming without end ("never")
Server(link) ==
  LET h == link.host[1]
  IN CASE h = "moved"    -> [head |-> 301, get |-> 200, body |-> "ends"]
       [] h = "gone"     -> [head |-> 500, get |-> 500, body |-> "ends"]
       [] h = "nohead"   -> [head |-> 405, get |-> 200, body |-> "ends"]
       [] h = "down"     -> [head |-> NoResponse, get |-> NoResponse, body |-> "ends"]
       [] h = "forbid"   -> [head |-> 403, get |-> 200, body |-> "breaks"]
       [] h = "choices"  -> [head |-> 403, get |-> 300, body |-> "ends"]
       [] h = "denied"   -> [head |-> 403, get |-> 404, body |-> "ends"]
       [] h = "getdown"  -> [head |-> 405, get |-> NoResponse, body |-> "ends"]
       [] h = "empty"    -> [head |-> 204, get |-> 204, body |-> "ends"]
       [] h = "stall"    -> [head |-> 403, get |-> 200, body |-> "never"]
       [] OTHER          -> [head |-> 200, get |-> 200, body |-> "ends"]

\* the items a provider can find: the host of the link, the letter of the
\* title and the deadline; the second is the first scholarship on another
\* page with a later deadline, the third the first one once more
Catalogue ==
  <<[host |-> "mit",     letter |-> "a", deadline |-> Dates.jan],
    [host |-> "moved",   letter |-> "a", deadline |-> Dates.feb],
    [host |-> "mit",     letter |-> "a", deadline |-> Dates.jan],
    [host |-> "gone",    letter |-> "b", deadline |-> Dates.jan],
    [host |-> "nohead",  letter |-> "c", deadline |-> Dates.jan],
    [host |-> "down",    letter |-> "d", deadline |-> Dates.jan],
    [host |-> "forbid",  letter |-> "e", deadline |-> Dates.jan],
    [host |-> "choices", letter |-> "f", deadline |-> Dates.jan],
    [host |-> "denied",  letter |-> "g", deadline |-> Dates.jan],
    [host |-> "getdown", letter |-> "h", deadline |-> Dates.jan],
    [host |-> "empty",   letter |-> "j", deadline |-> Dates.jan],
    [host |-> "stall",   letter |-> "k", deadline |-> Dates.jan]>>

\* the validated candidate of catalogue entry k
Found(k) ==
  LET e == Catalogue[((k - 1) % Len(Catalogue)) + 1]
  IN [CandA EXCEPT !.title = Rep(e.letter, 10), !.deadline = e.deadline,
                   !.link = [MitApply EXCEPT !.host = <<e.host, "edu">>]]

\* the most candidates one provider call contributes
MaxPerQuery == 3

\* what the provider call for query qi can contribute: nothing, or the
\* candidates of its stretch of the catalogue
Answers(qi) ==
  {<<>>, [j \in 1..MaxPerQuery |-> Found((qi - 1) * MaxPerQuery + j)]}

\* a check that has not been started
NewCheck == [st |-> "wait", sent |-> <<>>, res |-> NoResponse, res2 |-> NoResponse]

\* verifyLinkReachable has returned
Judged == {"alive", "dead"}

\* a faulty variant of WindowOf: every remaining candidate is checked at once
RestOfList(i, n) == i..n

\* allResults.slice(i, i + batchSize), as positions counted from 1
WindowOf(i, n) == {k \in i..n : k < i + batchSize}

\* batch.map(...) for the window that starts at i: verifyLinkReachable is
\* called for each candidate of the window and runs up to its await of the
\* HEAD request
StartWindow(rec, i) ==
  [rec EXCEPT !.win = i,
              !.checks = [k \in 1..Len(rec.all) |->
                            IF k \in WindowOf(i, Len(rec.all))
                              THEN [@[k] EXCEPT !.st = "head", !.sent = <<"HEAD">>]
                              ELSE @[k]]]

\* runSearchBatch after its query loop, with its link checks step by step:
\* with nothing accumulated the loop over windows is not entered
ChecksBegin(rec) ==
  IF rec.all = <<>>
    THEN VerifiedThenStore(rec, <<>>)
    ELSE StartWindow([rec EXCEPT !.pc = "verify", !.verified = <<>>,
                                 !.checks = [k \in 1..Len(rec.all) |-> NewCheck]], 1)

\* a faulty variant of WindowSettled: runSearchBatch goes on as soon as one
\* check of the window has returned
AnyCheckJudged(rec) ==
  \E k \in WindowOf(rec.win, Len(rec.all)) : rec.checks[k].st \in Judged

\* Promise.all of the window resolves: every check of it has returned
WindowSettled(rec) ==
  \A k \in WindowOf(rec.win, Len(rec.all)) : rec.checks[k].st \in Judged

\* a faulty variant of Verified: the candidates of the window, dead or alive
WholeWindow(rec) == Keep(rec.all, WindowOf(rec.win, Len(rec.all)), rec.win)

\* the candidates of the window whose check returned true, in the order of
\* the window
Verified(rec) ==
  Keep(rec.all, {k \in WindowOf(rec.win, Len(rec.all)) : rec.checks[k].st = "alive"},
       rec.win)

\* a faulty variant of Settle: runSearchBatch returns after its first window
SettleReturnsEarly(rec) ==
  VerifiedThenStore(rec, rec.verified \o Verified(rec))

\* the continuation of await Promise.all(...): the candidates of the window
\* found alive are pushed to verified, and the next window is started or
\* runSearchBatch returns and runFetchCycle goes on to storeScholarships
Settle(rec) ==
  LET r == [rec EXCEPT !.verified = @ \o Verified(rec)]
  IN IF rec.win + batchSize <= Len(rec.all)
       THEN StartWindow(r, rec.win + batchSize)
       ELSE VerifiedThenStore(r, r.verified)

\* a faulty variant of AfterHead: any refusal of HEAD is retried with GET
AfterHeadRetriesAll(check, res) ==
  IF res # NoResponse /\ (Ok(res) \/ (res >= 300 /\ res < 400))
    THEN [check EXCEPT !.st = "alive", !.res = res]
    ELSE [check EXCEPT !.st = "get", !.res = res, !.sent = Append(@, "GET")]

\* lines 106-123 of utils.ts with the outcome res of the HEAD request
AfterHead(check, res) ==
  IF res = NoResponse THEN [check EXCEPT !.st = "dead"]
  ELSE IF Ok(res) \/ (res >= 300 /\ res < 400)
    THEN [check EXCEPT !.st = "alive", !.res = res]
  ELSE IF res = 403 \/ res = 405
    THEN [check EXCEPT !.st = "get", !.res = res, !.sent = Append(@, "GET")]
  ELSE [check EXCEPT !.st = "dead", !.res = res]

\* lines 124-126 with the outcome res2 of the GET request: the timer is
\* cleared and the body is read
AfterGet(check, res2) ==
  IF res2 = NoResponse THEN [check EXCEPT !.st = "dead"]
  ELSE [check EXCEPT !.st = "body", !.res2 = res2]

\* a variant of AfterBody: the GET response is judged as the HEAD response
\* is, 3xx counting as alive (with it C17 holds as stated)
AfterBodyAcceptsRedirect(check) ==
  [check EXCEPT !.st = IF check.res2 >= 200 /\ check.res2 < 400 THEN "alive" ELSE "dead"]

\* line 127: return res2.ok
AfterBody(check) ==
  [check EXCEPT !.st = IF Ok(check.res2) THEN "alive" ELSE "dead"]

\* the HEAD request of the check of candidate k answers, fails or is aborted
HeadAnswers(p, k) ==
  /\ cyc[p].pc = "verify"
  /\ k \in 1..Len(cyc[p].checks)
  /\ cyc[p].checks[k].st = "head"
  /\ cyc' = [cyc EXCEPT
               ![p].checks[k] = AfterHead(@, Server(cyc[p].all[k].link).head)]
  /\ UNCHANGED <<now, env, aiServiceInstance, runIndex, fetchLogs, scholarships,
                 nextId, faults, admin, started>>

\* the fallback GET request answers, fails or is aborted
GetAnswers(p, k) ==
  /\ cyc[p].pc = "verify"
  /\ k \in 1..Len(cyc[p].checks)
  /\ cyc[p].checks[k].st = "get"
  /\ cyc' = [cyc EXCEPT
               ![p].checks[k] = AfterGet(@, Server(cyc[p].all[k].link).get)]
  /\ UNCHANGED <<now, env, aiServiceInstance, runIndex, fetchLogs, scholarships,
                 nextId, faults, admin, started>>

\* res2.text() settles: the body came to its end, or broke off and the
\* rejection was swallowed by .catch
BodyRead(p, k) ==
  /\ cyc[p].pc = "verify"
  /\ k \in 1..Len(cyc[p].checks)
  /\ cyc[p].checks[k].st = "body"
  /\ Server(cyc[p].all[k].link).body # "never"
  /\ cyc' = [cyc EXCEPT ![p].checks[k] = AfterBody(@)]
  /\ UNCHANGED <<now, env, aiServiceInstance, runIndex, fetchLogs, scholarships,
                 nextId, faults, admin, started>>

\* every check of the window has returned: Promise.all resolves and
\* runSearchBatch goes on
WindowResolves(p) ==
  /\ cyc[p].pc = "verify"
  /\ WindowSettled(cyc[p])
  /\ cyc' = [cyc EXCEPT ![p] = Settle(cyc[p])]
  /\ UNCHANGED <<now, env, aiServiceInstance, runIndex, fetchLogs, scholarships,
                 nextId, faults, admin, started>>

\* a faulty variant of AfterSearch: the next query is sent without the pause
AfterSearchNoPause(rec) ==
  IF rec.qi < QueriesPerSet THEN [rec EXCEPT !.qi = @ + 1] ELSE ChecksBegin(rec)

\* line 153 of utils.ts: the await of the 2 s timer
AfterSearch(rec) == [rec EXCEPT !.pc = "pause"]

\* the provider call for query qi answers (searchScholarships never throws)
\* and its candidates are pushed to allResults
SearchAnswers(p) ==
  /\ cyc[p].pc = "search"
  /\ \E results \in Answers(cyc[p].qi) :
       cyc' = [cyc EXCEPT
                 ![p] = AfterSearch([cyc[p] EXCEPT !.all = @ \o results,
                                                   !.returned = @ + Len(results)])]
  /\ UNCHANGED <<now, env, aiServiceInstance, runIndex, fetchLogs, scholarships,
                 nextId, faults, admin, started>>

\* the 2 s timer fires: the provider is called with the next query, or, past
\* the last query, the link checks begin
PauseElapses(p) ==
  /\ cyc[p].pc = "pause"
  /\ cyc' = [cyc EXCEPT
               ![p] = IF cyc[p].qi < QueriesPerSet
                        THEN [cyc[p] EXCEPT !.pc = "search", !.qi = @ + 1]
                        ELSE ChecksBegin(cyc[p])]
  /\ UNCHANGED <<now, env, aiServiceInstance, runIndex, fetchLogs, scholarships,
                 nextId, faults, admin, started>>

\* one fetch cycle with its provider calls and link checks step by step, the
\* database answering every request
InitVerify == Init /\ env.provider = ""

NextVerify ==
  \/ \E p \in Sequential : cyc[p].pc = "idle" /\ Invoke(p)
  \/ \E p \in Sequential : CreateLogReturns(p)
  \/ \E p \in Sequential : SearchAnswers(p)
  \/ \E p \in Sequential : PauseElapses(p)
  \/ \E p \in Sequential : \E k \in 1..Len(cyc[p].checks) : HeadAnswers(p, k)
  \/ \E p \in Sequential : \E k \in 1..Len(cyc[p].checks) : GetAnswers(p, k)
  \/ \E p \in Sequential : \E k \in 1..Len(cyc[p].checks) : BodyRead(p, k)
  \/ \E p \in Sequential : WindowResolves(p)
  \/ \E p \in Sequential : StoreStep(p)
  \/ \E p \in Sequential : CompleteReturns(p)

SpecVerify == InitVerify /\ [][NextVerify]_vars

\* the same cycle where every step that can be taken is taken in the end:
\* each request answers or is aborted by its timer, the database answers
SpecVerifyFair == InitVerify /\ [][NextVerify]_vars /\ WF_vars(NextVerify)


\* ------------------------------------------------------------------ the provider call, from the text

\* what the API call of searchScholarships brings. api: "answers", or
\* "fails" when the request rejects (network error, HTTP error of the API).
\* text: "empty" when the answer carries no text, else "text". block: the
\* trimmed content of the first fenced code block of the text, "none" when
\* the text has no such block; whole: the text as a whole; each is "junk"
\* (JSON.parse throws), "array" (the value is the array items), "object" (the
\* value is the object items[1]) or "scalar" (the value is null, a number or
\* a string). items: the elements of the value.
Answer(api, text, block, whole, items) ==
  [api |-> api, text |-> text, block |-> block, whole |-> whole, items |-> items]

\* a parsed element that is no object: it has none of the keys
NotAnObject ==
  Item(CandA) @@ [missing |-> {"title", "organization", "country", "level", "field",
                               "category", "deadline", "description", "link",
                               "amount", "currency"}]

ItemNoTitle == [ItemGood EXCEPT !.missing = {"title"}]
ItemBadLevel == [ItemGood EXCEPT !.level = "Diploma"]
ItemNoAmount == [ItemGood EXCEPT !.missing = {"amount", "currency"}]
ItemYesterday == [ItemGood EXCEPT !.deadline = Dates.yesterday]
ItemToday == [ItemGood EXCEPT !.deadline = Dates.today]
ItemTomorrow == [ItemGood EXCEPT !.deadline = Dates.tomorrow]
ItemIn3Years == [ItemGood EXCEPT !.deadline = Dates.in3years]
ItemIn3Years1Day == [ItemGood EXCEPT !.deadline = Dates.in3years1day]
ItemYear4 == [ItemGood EXCEPT !.deadline = Dates.year4]
ItemNoDate == [ItemGood EXCEPT !.deadline = NaN]
ItemBadDate == [ItemGood EXCEPT !.deadline = Malformed]

\* the answers a provider call of a fetch cycle is given in the model
ProviderAnswers ==
  {Answer("fails", "none", "none", "none", <<>>),
   Answer("answers", "empty", "none", "none", <<>>),
   Answer("answers", "text", "none", "junk", <<>>),
   Answer("answers", "text", "junk", "array", <<ItemGood>>),
   Answer("answers", "text", "none", "object", <<ItemGoodUpper>>),
   Answer("answers", "text", "array", "junk", <<ItemNoTitle, ItemBlocked, ItemGood>>),
   Answer("answers", "text", "none", "array", <<ItemPast, ItemIn3Years>>)}

\* lines 77-91 of gemini.provider.ts (88-103 of grok.provider.ts): jsonStr is
\* the content of the first fenced block if the text has one, else the text;
\* JSON.parse(jsonStr) throws, or gives the array, or a value that is
\* wrapped into an array of one
ParseJson(answer) ==
  LET jsonStr == IF answer.block # "none" THEN answer.block ELSE answer.whole
  IN IF jsonStr = "junk" THEN [ok |-> FALSE, parsed |-> <<>>]
     ELSE IF jsonStr = "array" THEN [ok |-> TRUE, parsed |-> answer.items]
     ELSE [ok |-> TRUE, parsed |-> <<answer.items[1]>>]

\* a faulty variant of searchScholarships: a failure of the API call leaves
\* the function as an exception
searchScholarshipsRethrows(answer) ==
  IF answer.api = "fails" THEN [threw |-> TRUE, valid |-> <<>>]
  ELSE IF answer.text = "empty" \/ ~ParseJson(answer).ok
    THEN [threw |-> FALSE, valid |-> <<>>]
  ELSE [threw |-> FALSE, valid |-> ValidateItems(ParseJson(answer).parsed)]

\* a faulty variant of searchScholarships: text that does not parse is taken
\* for the items it seems to hold
searchScholarshipsSalvages(answer) ==
  IF answer.api = "fails" \/ answer.text = "empty" THEN [threw |-> FALSE, valid |-> <<>>]
  ELSE [threw |-> FALSE, valid |-> ValidateItems(answer.items)]

\* searchScholarships(query) of a provider class, given what its API call
\* brings: the outer catch turns a rejected call into [], an empty text and
\* a parse failure return [], else the validation loop runs
searchScholarships(answer) ==
  IF answer.api = "fails" THEN [threw |-> FALSE, valid |-> <<>>]
  ELSE IF answer.text = "empty" THEN [threw |-> FALSE, valid |-> <<>>]
  ELSE IF ~ParseJson(answer).ok THEN [threw |-> FALSE, valid |-> <<>>]
  ELSE [threw |-> FALSE, valid |-> ValidateItems(ParseJson(answer).parsed)]

\* one iteration of the query loop of runSearchBatch, the provider call
\* taken from the text of its answer: the call settles, its candidates are
\* pushed, the 2 s pause elapses; an exception of the call would leave
\* runSearchBatch and reach the catch block of runFetchCycle
SearchSettles(p) ==
  /\ cyc[p].pc = "search"
  /\ \E answer \in ProviderAnswers :
       LET rec == [cyc[p] EXCEPT !.answer = answer]
           out == searchScholarships(answer)
           r == [rec EXCEPT !.all = @ \o out.valid, !.returned = @ + Len(answer.items)]
       IN /\ Len(r.all) <= MaxResults
          /\ cyc' = [cyc EXCEPT
                       ![p] = IF out.threw THEN Caught(rec, "API error")
                              ELSE IF rec.qi < QueriesPerSet THEN [r EXCEPT !.qi = @ + 1]
                              ELSE AfterQueries(r)]
  /\ UNCHANGED <<now, env, aiServiceInstance, runIndex, fetchLogs, scholarships,
                 nextId, faults, admin, started>>

\* one fetch cycle, the provider answering with text, the database failing
\* now and then, an administrator writing to the catalogue meanwhile
NextSearch ==
  \/ \E p \in Sequential : cyc[p].pc = "idle" /\ Invoke(p)
  \/ \E p \in Sequential : ControlStep(p)
  \/ \E p \in Sequential : SearchSettles(p)
  \/ \E p \in Sequential : VerifyReturns(p)
  \/ \E p \in Sequential : StoreStep(p)
  \/ \E p \in Sequential : StoreFault(p)
  \/ \E p \in Sequential : CreateConflicts(p)
  \/ AdminWrite

SpecSearch == Init /\ [][NextSearch]_vars

\* ------------------------------------------------------------------ one provider call on its own

\* the longest parsed array of a provider call made on its own
MaxItems == 2

\* the items a parsed array is made of
ParsedItems ==
  {ItemGood, ItemGoodUpper, ItemPast, ItemBlocked, NotAnObject, ItemNoTitle,
   ItemBadLevel, ItemNoAmount, ItemYesterday, ItemToday, ItemTomorrow, ItemIn3Years,
   ItemIn3Years1Day, ItemYear4, ItemNoDate, ItemBadDate}

\* the parsed arrays of at most n items
RECURSIVE Batches(_)
Batches(n) ==
  IF n = 0 THEN {<<>>}
  ELSE Batches(n - 1) \cup {<<item>> \o b : item \in ParsedItems,
                                          b \in {c \in Batches(n - 1) : Len(c) = n - 1}}

\* what a provider call made on its own may bring: a rejected request, no
\* text, and for each array its JSON as the whole text, in a fenced block,
\* cut short in a fenced block, and a JSON text that holds a fence itself;
\* for each item the JSON of the object alone; a JSON scalar
CallAnswers ==
  {Answer("fails", "none", "none", "none", <<>>),
   Answer("answers", "empty", "none", "none", <<>>),
   Answer("answers", "text", "none", "scalar", <<NotAnObject>>)}
  \cup {Answer("answers", "text", form[1], form[2], b) :
          form \in {<<"none", "array">>, <<"array", "junk">>, <<"junk", "junk">>,
                    <<"none", "junk">>, <<"junk", "array">>},
          b \in Batches(MaxItems)}
  \cup {Answer("answers", "text", form[1], form[2], <<item>>) :
          form \in {<<"none", "object">>, <<"object", "junk">>},
          item \in ParsedItems \ {NotAnObject}}

\* searchScholarships(query) is called on a provider and settles
ProviderCall(p) ==
  /\ cyc[p].pc = "idle"
  /\ \E answer \in CallAnswers :
       LET out == searchScholarships(answer)
       IN cyc' = [cyc EXCEPT
                    ![p] = [IdleProc EXCEPT !.pc = "called", !.caller = "direct",
                                            !.answer = answer,
                                            !.err = IF out.threw THEN "API error" ELSE @,
                                            !.all = out.valid,
                                            !.returned = Len(answer.items)]]
  /\ UNCHANGED <<now, env, aiServiceInstance, runIndex, fetchLogs, scholarships,
                 nextId, faults, admin, started>>

\* the caller is done with the list
ProviderCallOver(p) ==
  /\ cyc[p].pc = "called"
  /\ cyc' = [cyc EXCEPT ![p] = IdleProc]
  /\ UNCHANGED <<now, env, aiServiceInstance, runIndex, fetchLogs, scholarships,
                 nextId, faults, admin, started>>

NextCall ==
  \/ \E p \in Sequential : ProviderCall(p)
  \/ \E p \in Sequential : ProviderCallOver(p)

SpecCall == InitStore /\ [][NextCall]_vars

\* ------------------------------------------------------------------ the two trust predicates on one link

\* the hosts of the links judged: official sites, blocked sites and their
\* subdomains in several letter cases, and names that only look like them
LinkHosts ==
  {<<"mit", "edu">>, <<"MIT", "edu">>, <<"www", "mit", "edu">>,
   <<"scholarships", "com">>, <<"Scholarships", "com">>,
   <<"www", "scholarships", "com">>, <<"WWW", "scholarships", "com">>,
   <<"www", "www", "scholarships", "com">>, <<"apply", "scholarships", "com">>,
   <<"notscholarships", "com">>, <<"scholarships", "com", "edu">>,
   <<"www">>, <<"www", "localhost">>, <<"localhost">>, <<"x", "com">>, <<"com">>}

\* the last extension of the path ("" for a path without one)
LinkExts ==
  {<<>>, <<"p", "d", "f">>, <<"P", "D", "F">>, <<"P", "d", "f">>, <<"p", "d">>,
   <<"h", "t", "m", "l">>}

\* the link strings judged: URLs by scheme, host and path, with or without
\* blanks around them; the empty string, a blank string, and text that is
\* no URL
LinkStrings ==
  {[kind |-> "url", proto |-> proto, host |-> host, ext |-> ext, pad |-> pad] :
     proto \in {"https:", "http:", "ftp:", "mailto:"}, host \in LinkHosts,
     ext \in LinkExts, pad \in BOOLEAN}
  \cup {[kind |-> kind, proto |-> "", host |-> <<>>, ext |-> <<>>, pad |-> pad] :
          kind \in {"empty", "text"}, pad \in BOOLEAN}

\* a link string is judged by the predicate of the validation loop and by
\* the predicate of the storage layer
LinkJudged(p) ==
  /\ cyc[p].pc = "idle"
  /\ \E link \in LinkStrings :
       cyc' = [cyc EXCEPT
                 ![p] = [IdleProc EXCEPT !.pc = "judged", !.caller = "direct",
                                         !.url = link,
                                         !.official = isOfficialDirectLink(link),
                                         !.valid = isValidApplicationLink(link)]]
  /\ UNCHANGED <<now, env, aiServiceInstance, runIndex, fetchLogs, scholarships,
                 nextId, faults, admin, started>>

\* the callers are done with the verdicts
LinkJudgedOver(p) ==
  /\ cyc[p].pc = "judged"
  /\ cyc' = [cyc EXCEPT ![p] = IdleProc]
  /\ UNCHANGED <<now, env, aiServiceInstance, runIndex, fetchLogs, scholarships,
                 nextId, faults, admin, started>>

NextLink ==
  \/ \E p \in Sequential : LinkJudged(p)
  \/ \E p \in Sequential : LinkJudgedOver(p)

SpecLink == InitStore /\ [][NextLink]_vars

\* ------------------------------------------------------------------ calls on the provider manager

\* process.env as dotenv leaves it: the default provider with its key; no
\* key at all; the selected provider without a key while another has one;
\* two providers with keys; an unknown provider name; a single keyed provider
ManagerEnvs ==
  {[provider |-> "", keys |-> {"grok"}],
   [provider |-> "", keys |-> {}],
   [provider |-> "gemini", keys |-> {"grok"}],
   [provider |-> "gemini", keys |-> {"gemini", "grok"}],
   [provider |-> "claude", keys |-> {"openai", "gemini", "grok"}],
   [provider |-> "openai", keys |-> {"openai"}]}

FailedToInitialize == "[AI Service] Failed to initialize provider"
NoProviderInitialized == "[AI Service] No provider initialized"

\* what a caller of the manager has seen when its call is over: the call,
\* whether it returned or threw, the message thrown, and the provider that
\* served or was named
Seen(call, result, message, provider) ==
  [IdleProc EXCEPT !.pc = "done", !.caller = call, !.result = result,
                   !.err = message, !.provider = provider]

\* a call that went through getAIService() while the constructor threw
ConstructorThrew(call) == Seen(call, "rejected", FailedToInitialize, "")

\* aiService.instance followed by getProviderName() (getCurrentProvider)
InstanceCall(p) ==
  /\ cyc[p].pc \in {"idle", "done"}
  /\ aiServiceInstance' = getAIService
  /\ cyc' = [cyc EXCEPT ![p] =
       IF ~getAIService.made THEN ConstructorThrew("instance")
       ELSE Seen("instance", "resolved", "", getProviderName(getAIService))]
  /\ UNCHANGED <<now, env, runIndex, fetchLogs, scholarships, nextId, faults,
                 admin, started>>

\* switchAIProvider(provider): getAIService().switchProvider(provider)
SwitchCall(p, provider) ==
  /\ cyc[p].pc \in {"idle", "done"}
  /\ aiServiceInstance' =
       IF getAIService.made THEN switchProvider(getAIService, provider)
       ELSE getAIService
  /\ cyc' = [cyc EXCEPT ![p] =
       IF ~getAIService.made THEN ConstructorThrew("switchProvider")
       ELSE IF switchProvider(getAIService, provider).current = "null"
         THEN Seen("switchProvider", "rejected", FailedToInitialize, provider)
       ELSE Seen("switchProvider", "resolved", "", provider)]
  /\ UNCHANGED <<now, env, runIndex, fetchLogs, scholarships, nextId, faults,
                 admin, started>>

\* a call that the manager hands to its current provider
Served(call, manager) ==
  IF ~manager.made THEN ConstructorThrew(call)
  ELSE IF manager.current = "null"
    THEN Seen(call, "rejected", NoProviderInitialized, "None")
  ELSE Seen(call, "resolved", "", manager.current)

\* searchScholarships(query): getAIService().searchScholarships(query)
SearchCall(p) ==
  /\ cyc[p].pc \in {"idle", "done"}
  /\ aiServiceInstance' = getAIService
  /\ cyc' = [cyc EXCEPT ![p] = Served("searchScholarships", getAIService)]
  /\ UNCHANGED <<now, env, runIndex, fetchLogs, scholarships, nextId, faults,
                 admin, started>>

\* runSearchBatchWithAI(queries): getAIService().runSearchBatch(queries)
BatchCall(p) ==
  /\ cyc[p].pc \in {"idle", "done"}
  /\ aiServiceInstance' = getAIService
  /\ cyc' = [cyc EXCEPT ![p] = Served("runSearchBatch", getAIService)]
  /\ UNCHANGED <<now, env, runIndex, fetchLogs, scholarships, nextId, faults,
                 admin, started>>

\* the provider class of the entry getAvailableProviders() marks as current
MarkedCurrent(manager) ==
  LET marked == {n \in ProviderNames : getAvailableProviders(manager)[n].current}
  IN IF marked = {} THEN "None" ELSE ProviderClassName(CHOOSE n \in marked : TRUE)

\* getAvailableProviders(): getAIService().getAvailableProviders()
ListCall(p) ==
  /\ cyc[p].pc \in {"idle", "done"}
  /\ aiServiceInstance' = getAIService
  /\ cyc' = [cyc EXCEPT ![p] =
       IF ~getAIService.made THEN ConstructorThrew("getAvailableProviders")
       ELSE Seen("getAvailableProviders", "resolved", "", MarkedCurrent(getAIService))]
  /\ UNCHANGED <<now, env, runIndex, fetchLogs, scholarships, nextId, faults,
                 admin, started>>

\* the process environment is set anew (config() of dotenv, an assignment to
\* process.env); a manager already constructed keeps the config it read
EnvChanges ==
  /\ env' \in ManagerEnvs \ {env}
  /\ UNCHANGED <<now, aiServiceInstance, runIndex, fetchLogs, scholarships, nextId,
                 cyc, faults, admin, started>>

InitManager ==
  /\ now = Noon(Dates.today)
  /\ env \in ManagerEnvs
  /\ aiServiceInstance = NoInstance
  /\ runIndex = 0
  /\ fetchLogs = <<>>
  /\ scholarships = {}
  /\ nextId = 1
  /\ cyc = [p \in Procs |-> IdleProc]
  /\ faults = 0
  /\ admin = 0
  /\ started = 0

NextManager ==
  \/ \E p \in Procs : InstanceCall(p)
  \/ \E p \in Procs : \E provider \in ProviderNames : SwitchCall(p, provider)
  \/ \E p \in Procs : SearchCall(p)
  \/ \E p \in Procs : BatchCall(p)
  \/ \E p \in Procs : ListCall(p)
  \/ EnvChanges

SpecManager == InitManager /\ [][NextManager]_vars


\* ------------------------------------------------------------------ the run records

\* the selected provider has no API key
NoProviderConfigured == initializeProvider(ConfiguredProvider, env.keys) = "null"

RunRecords == 1..Len(fetchLogs)

Terminal == {"completed", "failed"}

\* C1: with no search provider configured, an invocation of runFetchCycle()
\* that created its run record ends with that record failed, its error
\* message non-empty, and its promise resolved.
C1_NoProviderRunRecordedFailed ==
  \A p \in Procs :
    (NoProviderConfigured /\ cyc[p].pc = "done" /\ cyc[p].logId # 0) =>
      /\ cyc[p].result = "resolved"
      /\ fetchLogs[cyc[p].logId].status = "failed"
      /\ fetchLogs[cyc[p].logId].error # ""

\* C2: no run record stays running after its invocation has ended: every
\* running record belongs to an invocation that is still in progress.
C2_NoRunningRecordAfterEnd ==
  \A i \in RunRecords :
    fetchLogs[i].status = "running" =>
      \E p \in Procs : cyc[p].logId = i /\ cyc[p].pc \notin {"idle", "done"}

\* C3: run records are never removed; a completed or failed record never
\* changes again; a running record either stays as it is or moves to
\* completed or failed, so each record is updated at most once.
C3_RunRecordUpdatedOnce ==
  [][/\ Len(fetchLogs') >= Len(fetchLogs)
     /\ \A i \in RunRecords :
          /\ fetchLogs[i].status \in Terminal => fetchLogs'[i] = fetchLogs[i]
          /\ fetchLogs[i].status = "running" =>
               \/ fetchLogs'[i] = fetchLogs[i]
               \/ fetchLogs'[i].status \in Terminal]_vars

\* two overlapping invocations have ended, one with its record completed and
\* the other, after completeFetchLog was refused, with its record failed
C3_Witness ==
  /\ \A p \in Procs : cyc[p].pc = "done" /\ cyc[p].logId # 0
  /\ \E i, j \in RunRecords :
       fetchLogs[i].status = "completed" /\ fetchLogs[j].status = "failed"

\* C4: the promise of runFetchCycle() never rejects.
C4_NeverRejects ==
  \A p \in Procs : cyc[p].caller = "cycle" => cyc[p].result # "rejected"


\* ------------------------------------------------------------------ the scholarship records

\* the identity key of a record or candidate: its title and organization,
\* trimmed and in lower case
IdentityKey(d) == <<ToLower(Trim(d.title)), ToLower(Trim(d.organization))>>

\* the fields of the unique index
IndexKey(d) == <<d.title, d.organization, d.deadline>>

\* C5 as stated: after any sequence of store writes, no two persisted records
\* share the identity key.
C5_IdentityKeyUnique ==
  \A d, e \in scholarships : IdentityKey(d) = IdentityKey(e) => d._id = e._id

\* C5: after any sequence of store writes (storeScholarships inserts and
\* merges of sequential or overlapping calls, addScholarship,
\* updateScholarship), no two persisted records have the same title, the same
\* organization and the same deadline, compared exactly as stored.
C5_IndexKeyUnique ==
  \A d, e \in scholarships : IndexKey(d) = IndexKey(e) => d._id = e._id

\* the unique index has refused a write, and two records that share the
\* identity key are stored side by side
C5_Witness ==
  /\ \E p \in Procs : cyc[p].conflicts > 0
  /\ \E d, e \in scholarships : d._id # e._id /\ IdentityKey(d) = IdentityKey(e)

\* C6 as stated: with overlapping fetch cycles storing candidates of the same
\* identity key, one record with that key exists.
C6_OneRecordPerIdentityKey ==
  Cardinality({IdentityKey(d) : d \in scholarships}) = Cardinality(scholarships)

\* C6: with overlapping fetch cycles storing candidates with the same trimmed
\* title, organization and deadline, one record with these exists; an insert
\* the unique index refuses is counted as a duplicate, writes nothing and does
\* not end storeScholarships; a cycle that met no database failure has its run
\* record completed.
C6_InsertConflictIsDuplicate ==
  [][/\ Cardinality({IndexKey(d) : d \in scholarships'}) = Cardinality(scholarships')
     /\ \A p \in Procs :
          /\ cyc'[p].conflicts # cyc[p].conflicts =>
               /\ cyc'[p].conflicts = cyc[p].conflicts + 1
               /\ cyc'[p].duped = cyc[p].duped + 1
               /\ cyc'[p].added = cyc[p].added
               /\ scholarships' = scholarships
               /\ cyc'[p].pc \in {"find", "complete"}
          /\ (cyc'[p].pc = "done" /\ cyc'[p].logId # 0 /\ ~cyc'[p].faulted) =>
               /\ cyc'[p].result = "resolved"
               /\ fetchLogs'[cyc'[p].logId].status = "completed"]_vars

\* both cycles have ended with their run records completed, one insert was
\* refused by the index and counted, and one record is stored
C6_Witness ==
  /\ \A p \in Procs : cyc[p].pc = "done" /\ cyc[p].logId # 0
  /\ \A i \in RunRecords : fetchLogs[i].status = "completed"
  /\ \E p \in Procs : cyc[p].conflicts = 1 /\ cyc[p].duped = 1 /\ cyc[p].added = 0
  /\ \E p \in Procs : cyc[p].added = 1
  /\ Cardinality(scholarships) = 1

\* C7: every stored record has a link that passes the trust policy.
C7_StoredLinksPassPolicy ==
  \A d \in scholarships : isValidApplicationLink(d.link)


\* ------------------------------------------------------------------ counts and merges

\* the invocation of slot p has just had its run record completed
JustCompleted(p) == cyc[p].pc = "complete" /\ cyc'[p].pc = "done"

\* the provider answered one query of the invocation of slot p with three
\* items (a past deadline, a blocklisted link, a valid one), the others with
\* none, and the valid item's link was found reachable
ThreeItemCycle(p) ==
  /\ cyc[p].returned = 3
  /\ cyc[p].all = ValidateItems(<<ItemPast, ItemBlocked, ItemGood>>)
  /\ cyc[p].list = cyc[p].all

\* C8 as stated: the found count of a completed run record is the number of
\* candidates the provider returned.
C8_FoundIsReturned ==
  \A p \in Procs :
    (cyc[p].pc = "done" /\ cyc[p].logId # 0
       /\ fetchLogs[cyc[p].logId].status = "completed") =>
      fetchLogs[cyc[p].logId].scholarships_found = cyc[p].returned

\* C8: when completeFetchLog answers, the run record is completed, its found
\* count is the number of candidates that passed validation and the link
\* check (the list handed to storeScholarships, never more than the provider
\* returned) and its added count is the number of records the call inserted;
\* for the cycle with the three items, the valid one not stored before and no
\* database failure, found = 1 and added = 1.
C8_FoundIsVerified ==
  [][\A p \in Procs :
       JustCompleted(p) =>
         LET log == fetchLogs'[cyc[p].logId]
         IN /\ log.status = "completed"
            /\ cyc'[p].result = "resolved"
            /\ log.scholarships_found = Len(cyc[p].list)
            /\ log.scholarships_found <= cyc[p].returned
            /\ log.scholarships_added = cyc[p].inserted
            /\ (ThreeItemCycle(p) /\ cyc[p].pre = "fresh" /\ ~cyc[p].faulted) =>
                 log.scholarships_found = 1 /\ log.scholarships_added = 1]_vars

\* a cycle whose provider returned the three items has ended with its run
\* record completed, found = 1 and added = 1
C8_Witness ==
  \E p \in Procs :
    /\ cyc[p].pc = "done" /\ cyc[p].returned = 3 /\ cyc[p].logId # 0
    /\ fetchLogs[cyc[p].logId].status = "completed"
    /\ fetchLogs[cyc[p].logId].scholarships_found = 1
    /\ fetchLogs[cyc[p].logId].scholarships_added = 1

\* the call storeScholarships(<<s>>, source) of slot p returns in this step,
\* no other writer touched the collection during the call and the database
\* answered every request
LoneCallReturns(p) ==
  /\ cyc[p].caller = "direct"
  /\ cyc[p].pc \in StorePcs
  /\ cyc'[p].pc = "done"
  /\ Len(cyc[p].list) = 1
  /\ ~cyc'[p].foreign
  /\ ~cyc'[p].faulted

\* docs holds candidate s as storeScholarships inserts it
HoldsAsInserted(s, docs) ==
  \E d \in docs : [NewDocument(s, d.source, d._id) EXCEPT !.updated_at = d.updated_at] = d

\* C9: a call storeScholarships(<<s>>, source) with s valid and not in the
\* collection returns 1, the collection has grown by one record and holds s
\* as stored; a call with s already stored that way returns 0, counts one
\* duplicate and leaves the collection as it was.
C9_SecondSubmissionIsDuplicate ==
  [][\A p \in Procs :
       LoneCallReturns(p) =>
         /\ cyc[p].pre = "fresh" =>
              /\ cyc'[p].added = 1 /\ cyc'[p].duped = 0
              /\ cyc'[p].result = "resolved"
              /\ Cardinality(scholarships') = Cardinality(scholarships) + 1
              /\ scholarships \subseteq scholarships'
              /\ HoldsAsInserted(cyc[p].list[1], scholarships')
         /\ cyc[p].pre = "stored" =>
              /\ cyc'[p].added = 0 /\ cyc'[p].duped = 1
              /\ cyc'[p].result = "resolved"
              /\ scholarships' = scholarships]_vars

\* one call has inserted its candidate and a later call with the same
\* candidate has returned 0 with one duplicate counted
C9_Witness ==
  \E p, q \in Procs :
    /\ cyc[p].pc = "done" /\ cyc[p].pre = "fresh" /\ cyc[p].added = 1
    /\ cyc[q].pc = "done" /\ cyc[q].pre = "stored" /\ cyc[q].added = 0
    /\ cyc[q].duped = 1
    /\ ~cyc[p].foreign /\ ~cyc[q].foreign /\ ~cyc[p].faulted /\ ~cyc[q].faulted
    /\ Cardinality(scholarships) = 1

\* updateOne of the merge branch answers the call of slot p in this step, no
\* other writer having touched the collection during the call
MergeApplied(p) ==
  /\ cyc[p].pc = "update"
  /\ cyc'[p].duped = cyc[p].duped + 1
  /\ ~cyc[p].foreign

\* C10: in a merge the stored deadline is replaced exactly when the incoming
\* deadline is strictly later, and then by the incoming deadline; the stored
\* description is replaced exactly when the trimmed incoming description is
\* strictly longer, and then by the trimmed incoming description; stored
\* (2026-01-01, 60 characters) merged with incoming (2026-02-01, 40 characters
\* once trimmed) gives 2026-02-01 and the stored description.
C10_MergeKeepsLaterAndLonger ==
  [][\A p \in Procs :
       MergeApplied(p) =>
         \A d \in scholarships :
           d._id = cyc[p].exists._id =>
             \E n \in scholarships' :
               LET s == cyc[p].list[cyc[p].i]
                   later == DateGt(DateOf(s.deadline), d.deadline)
                   longer == Len(Trim(s.description)) > Len(d.description)
               IN /\ n._id = d._id
                  /\ (n.deadline # d.deadline) <=> later
                  /\ later => n.deadline = DateOf(s.deadline)
                  /\ (n.description # d.description) <=> longer
                  /\ longer => n.description = Trim(s.description)
                  /\ (/\ d.deadline = DateOf(Dates.jan) /\ Len(d.description) = 60
                      /\ s.deadline = Dates.feb /\ Len(Trim(s.description)) = 40) =>
                       n.deadline = DateOf(Dates.feb) /\ n.description = d.description]_vars

\* a record inserted by storeScholarships with deadline 2026-01-01 and a
\* description of 60 characters has been merged with the candidate of
\* deadline 2026-02-01 and 40 characters
C10_Witness ==
  \E p \in Procs :
    /\ cyc[p].pc = "done" /\ cyc[p].pre = "other" /\ cyc[p].duped = 1
    /\ ~cyc[p].foreign /\ ~cyc[p].faulted
    /\ \E d \in scholarships :
         /\ d.source = DirectSource /\ d.title = Title1
         /\ d.deadline = DateOf(Dates.feb) /\ d.description = Desc60


\* ------------------------------------------------------------------ what a merge leaves alone

\* findOne answers the call of slot p in this step
LookupAnswered(p) ==
  /\ cyc[p].pc = "find"
  /\ cyc'[p].pc # "find" \/ cyc'[p].i # cyc[p].i
  /\ cyc'[p].faulted = cyc[p].faulted

\* candidate s is neither strictly later in deadline nor strictly longer in
\* trimmed description than the stored record d
NothingBetter(s, d) ==
  /\ ~(DateOf(s.deadline) > d.deadline)
  /\ ~(Len(Trim(s.description)) > Len(d.description))

\* C11: when findOne answers for a candidate that matches stored records and
\* is neither later in deadline nor longer in description than any of them,
\* storeScholarships leaves the collection as it was (no field of any record
\* changes, nothing is inserted), counts the candidate as a duplicate and not
\* as added, and issues no updateOne.
C11_NoBetterNoChange ==
  [][\A p \in Procs :
       LET s == cyc[p].list[cyc[p].i]
       IN (/\ LookupAnswered(p)
           /\ FindMatches(s) # {}
           /\ \A d \in FindMatches(s) : NothingBetter(s, d)) =>
            /\ scholarships' = scholarships
            /\ nextId' = nextId
            /\ cyc'[p].added = cyc[p].added
            /\ cyc'[p].inserted = cyc[p].inserted
            /\ cyc'[p].duped = cyc[p].duped + 1
            /\ cyc'[p].pc # "update"]_vars

\* a call has met a record added by an administrator with a later deadline
\* and the same description, counted its candidate as a duplicate and
\* returned 0; the record is as the administrator wrote it
C11_Witness ==
  \E p \in Procs :
    /\ cyc[p].pc = "done" /\ cyc[p].caller = "direct" /\ cyc[p].pre = "other"
    /\ cyc[p].duped = 1 /\ cyc[p].added = 0
    /\ ~cyc[p].foreign /\ ~cyc[p].faulted
    /\ \E data \in AdminAdds : scholarships = {AddDocument(data, 1)}


\* updateOne of the merge branch answers the call of slot p in this step
MergeAnswered(p) ==
  /\ cyc[p].pc = "update"
  /\ cyc'[p].duped = cyc[p].duped + 1

\* the fields a merge never sets
KeptFields ==
  {"_id", "title", "organization", "country", "level", "field", "category",
   "currency", "is_verified", "source"}

\* C12: a merge leaves every other record as it was and removes or adds
\* none; in the merged record it never changes title, organization, country,
\* level, field, category, currency, the verification flag or the provenance
\* string; and, no other writer having touched the collection during the
\* call, each of deadline, description, link and amount is the incoming value
\* when that field qualifies (later deadline, longer trimmed description,
\* link passing the trust policy, non-blank amount) and the stored value when
\* it does not.
C12_MergeSetsOnlyQualifyingFields ==
  [][\A p \in Procs :
       MergeAnswered(p) =>
         LET s == cyc[p].list[cyc[p].i]
             id == cyc[p].exists._id
         IN /\ {e \in scholarships : e._id # id} = {e \in scholarships' : e._id # id}
            /\ \A d \in scholarships :
                 d._id = id =>
                   \E n \in scholarships' :
                     /\ \A f \in KeptFields : n[f] = d[f]
                     /\ ~cyc[p].foreign =>
                          /\ n.deadline = IF DateOf(s.deadline) > d.deadline
                                            THEN DateOf(s.deadline) ELSE d.deadline
                          /\ n.description =
                               IF Len(Trim(s.description)) > Len(d.description)
                                 THEN Trim(s.description) ELSE d.description
                          /\ n.link = IF isValidApplicationLink(s.link)
                                        THEN TrimLink(s.link) ELSE d.link
                          /\ n.amount = IF Trim(s.amount) # <<>>
                                          THEN Trim(s.amount) ELSE d.amount]_vars

\* a record added and verified by an administrator has been merged with a
\* candidate of longer description: the description is the candidate's, the
\* deadline, the verification flag and the provenance are the record's
C12_Witness ==
  /\ \E p \in Procs : cyc[p].pc = "done" /\ cyc[p].duped = 1 /\ ~cyc[p].foreign
  /\ \E d \in scholarships :
       /\ d.source = ManualSource /\ d.is_verified
       /\ d.description = Desc61 /\ d.deadline = DateOf(Dates.feb)


\* ------------------------------------------------------------------ flag and provenance

\* C13: over fetch cycles, a record that appears in the collection was
\* inserted by a call of storeScholarships that was awaiting its create, has
\* the verification flag false and carries the source string that call was
\* given; and no record of the collection ever has the flag true, whatever
\* inserts and merges the cycles perform.
C13_PipelineRecordsUnverified ==
  [][/\ \A n \in scholarships' :
          (\A d \in scholarships : d._id # n._id) =>
            /\ ~n.is_verified
            /\ \E p \in Procs :
                 /\ cyc[p].pc = "create"
                 /\ cyc'[p].inserted = cyc[p].inserted + 1
                 /\ n.source = cyc[p].source
                 /\ n.source.provider = LowerName(cyc[p].provider)
     /\ \A n \in scholarships' : ~n.is_verified]_vars

\* a record inserted by the first cycle with the source of batch 1 has been
\* merged by the second cycle: it is unverified and its source is unchanged
C13_Witness ==
  /\ runIndex = 2
  /\ \E d \in scholarships :
       /\ ~d.is_verified
       /\ d.source.batch = 1
       /\ d.deadline = DateOf(Dates.feb) /\ d.title = Title1


\* ------------------------------------------------------------------ the windows of link checks

\* the checks of the run in slot p that are outstanding: verifyLinkReachable
\* was called and has not returned (its HEAD request, its fallback GET or the
\* read of the GET response's body is awaited)
Outstanding(p) ==
  {k \in 1..Len(cyc[p].checks) : cyc[p].checks[k].st \in {"head", "get", "body"}}

\* C14: during the link verification of a run, whatever the number of
\* accumulated candidates, at most 5 checks are outstanding at any instant.
C14_AtMostFiveOutstanding ==
  \A p \in Procs : Cardinality(Outstanding(p)) <= 5

\* twelve candidates were accumulated, the first window has been judged and
\* the five checks of the second are outstanding, one of them at its
\* fallback GET and one reading the body of the GET response
C14_Witness ==
  \E p \in Procs :
    /\ Len(cyc[p].all) = 12
    /\ cyc[p].win = 6
    /\ Cardinality(Outstanding(p)) = 5
    /\ \E k, l \in Outstanding(p) :
         cyc[p].checks[k].st = "get" /\ cyc[p].checks[l].st = "body"

\* the window of position k: positions 1..5 make window 0, 6..10 window 1, ...
WindowIndex(k) == (k - 1) \div 5

\* the check of position k of the run in slot p is started in this step
CheckStarts(p, k) ==
  /\ k \in 1..Len(cyc'[p].checks)
  /\ cyc'[p].checks[k].st # "wait"
  /\ Len(cyc[p].checks) < k \/ cyc[p].checks[k].st = "wait"

\* C15: link verification proceeds in windows of 5: when a check is started,
\* every check of every earlier window has returned (its HEAD request or its
\* fallback GET with the read of the body has finished), and a check that
\* has returned stays as it was judged.
C15_WindowsInTurn ==
  [][\A p \in Procs :
       /\ \A k \in 1..Len(cyc'[p].checks) :
            CheckStarts(p, k) =>
              \A j \in 1..Len(cyc'[p].checks) :
                WindowIndex(j) < WindowIndex(k) => cyc'[p].checks[j].st \in Judged
       /\ \A k \in 1..Len(cyc[p].checks) :
            (cyc[p].checks[k].st \in Judged /\ cyc'[p].pc = "verify") =>
              cyc'[p].checks[k] = cyc[p].checks[k]]_vars

\* the second window has been started after the five checks of the first
\* returned, one of them through its fallback GET
C15_Witness ==
  \E p \in Procs :
    /\ cyc[p].pc = "verify"
    /\ Len(cyc[p].checks) > 5
    /\ cyc[p].checks[6].st = "head"
    /\ \A j \in 1..5 : cyc[p].checks[j].st \in Judged
    /\ \E j \in 1..5 : cyc[p].checks[j].sent = <<"HEAD", "GET">>


\* ------------------------------------------------------------------ what the link checks let through

\* the positions whose check returned true
AliveAt(checks) == {k \in 1..Len(checks) : checks[k].st = "alive"}

\* list is the sub-list of all at the positions K, in the order of all
IsSubListAt(list, all, K) ==
  /\ Len(list) = Cardinality(K)
  /\ \A k \in K : list[Cardinality({j \in K : j <= k})] = all[k]

\* runSearchBatch of the run in slot p returns in this step
BatchReturns(p) ==
  /\ cyc[p].caller = "cycle"
  /\ cyc[p].pc \in {"verify", "pause"}
  /\ cyc'[p].pc \notin {"verify", "pause", "search"}

\* C16: when runSearchBatch returns, every check has returned and the list
\* handed on is the accumulated list restricted to the positions whose link
\* was found reachable: the same candidates, as often as they were
\* accumulated, in the same order, none with a dead link; and whenever the
\* cycle writes the collection afterwards, the candidate it writes is one
\* whose link was found reachable, and a record it inserts has the link of
\* that candidate.
C16_VerifiedIsAliveSubList ==
  [][\A p \in Procs :
       /\ BatchReturns(p) =>
            /\ cyc'[p].all = cyc[p].all
            /\ \A k \in 1..Len(cyc'[p].checks) : cyc'[p].checks[k].st \in Judged
            /\ Len(cyc'[p].checks) = Len(cyc[p].all)
            /\ IsSubListAt(cyc'[p].list, cyc[p].all, AliveAt(cyc'[p].checks))
       /\ (cyc[p].caller = "cycle" /\ cyc[p].pc \in StorePcs) =>
            /\ cyc'[p].pc \in StorePcs => cyc'[p].list = cyc[p].list
            /\ scholarships' # scholarships =>
                 LET s == cyc[p].list[cyc[p].i]
                 IN /\ \E k \in AliveAt(cyc[p].checks) : cyc[p].all[k] = s
                    /\ \A n \in scholarships' \ scholarships :
                         n.link = TrimLink(s.link) /\ n.title = Trim(s.title)]_vars

\* nine candidates were accumulated, four of them with a dead link and one
\* of them twice; the five others were handed on in their order and three
\* records were stored, the first of them merged with the second candidate
C16_Witness ==
  \E p \in Procs :
    /\ cyc[p].pc = "complete"
    /\ Len(cyc[p].all) = 9
    /\ cyc[p].list = <<Found(1), Found(2), Found(3), Found(5), Found(7)>>
    /\ Found(3) = Found(1)
    /\ cyc[p].added = 3
    /\ {d.link.host[1] : d \in scholarships} = {"moved", "nohead", "forbid"}


\* ------------------------------------------------------------------ the verdict of a link check

\* the status of the response that decides a check: the HEAD response, or,
\* when that was 403 or 405, the response of the fallback GET (NoResponse
\* when the request failed or was aborted)
Deciding(check) == IF check.res \in {403, 405} THEN check.res2 ELSE check.res

\* C17: a link is judged alive exactly when the deciding response has a
\* status in [200, 400); every other status, a timeout or a network error on
\* either request judges it dead.
C17_AliveIffStatusBelow400 ==
  \A p \in Procs :
    \A k \in 1..Len(cyc[p].checks) :
      cyc[p].checks[k].st \in Judged =>
        (cyc[p].checks[k].st = "alive" <=>
           (Deciding(cyc[p].checks[k]) >= 200 /\ Deciding(cyc[p].checks[k]) < 400))

\* C18: for each candidate link the check issues at most two requests, one
\* HEAD and then at most one GET, the GET only after the HEAD answered 403
\* or 405; a HEAD that failed or timed out is followed by no request; and
\* whatever the GET brings (a status that is not 2xx, a failure, a timeout),
\* no further request is issued for that link.
C18_AtMostHeadThenGet ==
  [][\A p \in Procs :
       \A k \in 1..Len(cyc'[p].checks) :
         LET c == cyc'[p].checks[k]
         IN /\ c.sent \in {<<>>, <<"HEAD">>, <<"HEAD", "GET">>}
            /\ c.sent = <<"HEAD", "GET">> => c.res \in {403, 405}
            /\ (c.st \in Judged /\ c.res = NoResponse) => c.sent = <<"HEAD">>
            /\ (k <= Len(cyc[p].checks) /\ cyc[p].checks[k].st \in {"get", "body"}) =>
                 c.sent = cyc[p].checks[k].sent
            /\ (k <= Len(cyc[p].checks) /\ cyc[p].checks[k].st \in Judged) =>
                 c.sent = cyc[p].checks[k].sent]_vars

\* three links of one run have been judged dead: one whose HEAD request got
\* no response, after that one request; one whose GET answered 404 and one
\* whose GET got no response, each after its two requests
C18_Witness ==
  \E p \in Procs :
    \E k, l, m \in 1..Len(cyc[p].checks) :
      /\ cyc[p].checks[k] = [st |-> "dead", sent |-> <<"HEAD">>,
                             res |-> NoResponse, res2 |-> NoResponse]
      /\ cyc[p].checks[l] = [st |-> "dead", sent |-> <<"HEAD", "GET">>,
                             res |-> 403, res2 |-> 404]
      /\ cyc[p].checks[m] = [st |-> "dead", sent |-> <<"HEAD", "GET">>,
                             res |-> 405, res2 |-> NoResponse]


\* ------------------------------------------------------------------ termination

\* the check of position k of the run in slot p reads a body that never ends
BodyStalls(p, k) ==
  /\ k \in 1..Len(cyc[p].checks)
  /\ cyc[p].checks[k].st = "body"
  /\ Server(cyc[p].all[k].link).body = "never"

\* C19: every fetch cycle terminates: once runFetchCycle has been called,
\* its promise settles in the end, whatever the remote peers do.
C19_EveryCycleFinishes ==
  \A p \in Procs : (cyc[p].pc = "createLog") ~> (cyc[p].pc = "done")

\* what holds instead: a cycle finishes unless one of its checks reads a
\* body that never ends
CycleFinishesOrBodyStalls ==
  \A p \in Procs :
    (cyc[p].pc = "createLog") ~>
      (cyc[p].pc = "done" \/ \E k \in 1..Len(cyc[p].checks) : BodyStalls(p, k))


\* ------------------------------------------------------------------ the provider calls of a run

\* the provider is called by the run in slot p in this step
CallStarts(p) ==
  /\ cyc'[p].pc = "search"
  /\ cyc[p].pc # "search" \/ cyc'[p].qi # cyc[p].qi

\* C20: within one run the provider is called once per query, in the order
\* of the query list, and never concurrently: the first call is for query 1;
\* while a call is outstanding no other is started; the call for query i+1
\* starts only when the call for query i has returned its result and the
\* pause after it has elapsed; and the link checks begin only after the call
\* for the last query.
C20_OneCallAtATimeInOrder ==
  [][\A p \in Procs :
       /\ CallStarts(p) =>
            \/ cyc[p].pc = "createLog" /\ cyc'[p].qi = 1
            \/ /\ cyc[p].pc = "pause"
               /\ cyc'[p].qi = cyc[p].qi + 1
               /\ cyc'[p].qi <= QueriesPerSet
               /\ cyc'[p].all = cyc[p].all
       /\ cyc[p].pc = "search" =>
            /\ cyc'[p].pc \in {"search", "pause"}
            /\ cyc'[p].qi = cyc[p].qi
            /\ cyc'[p].pc = "pause" =>
                 \E results \in Answers(cyc[p].qi) : cyc'[p].all = cyc[p].all \o results
       /\ (cyc[p].pc = "pause" /\ cyc'[p].pc \notin {"pause", "search"}) =>
            cyc[p].qi = QueriesPerSet]_vars

\* the call for the last query is outstanding; the calls for the first and
\* the third query brought candidates, the call for the second none
C20_Witness ==
  \E p \in Procs :
    /\ cyc[p].pc = "search"
    /\ cyc[p].qi = QueriesPerSet
    /\ cyc[p].all = [j \in 1..(2 * MaxPerQuery) |->
                       IF j <= MaxPerQuery THEN Found(j) ELSE Found(MaxPerQuery + j)]

\* ------------------------------------------------------------------ C21

\* the provider call brought no parsed value: the request was rejected, or
\* its text is not JSON
QueryFailed(answer) ==
  \/ answer.api = "fails"
  \/ answer.api = "answers" /\ answer.text = "text" /\ ~ParseJson(answer).ok

\* C21: a transport or parse failure of one query never aborts the batch.
\* The step in which a provider call settles never enters the catch block of
\* runFetchCycle; before the last query it issues the next query; it keeps
\* the candidates accumulated so far as a prefix of the list, and when the
\* call failed in transport or in parsing the list is left as it was.
C21_FailedQueryKeepsBatch ==
  [][\A p \in Procs :
       (cyc[p].pc = "search" /\ cyc'[p] # cyc[p]) =>
         /\ cyc'[p].pc # "fail"
         /\ cyc'[p].err = cyc[p].err
         /\ cyc[p].qi < QueriesPerSet =>
              cyc'[p].pc = "search" /\ cyc'[p].qi = cyc[p].qi + 1
         /\ Len(cyc'[p].all) >= Len(cyc[p].all)
         /\ SubSeq(cyc'[p].all, 1, Len(cyc[p].all)) = cyc[p].all
         /\ QueryFailed(cyc'[p].answer) => cyc'[p].all = cyc[p].all]_vars

\* the second query of a batch failed in transport after the first brought a
\* candidate: the third query is issued and the candidate is still there
C21_Witness ==
  \E p \in Procs :
    /\ cyc[p].pc = "search"
    /\ cyc[p].qi = 3
    /\ cyc[p].answer.api = "fails"
    /\ cyc[p].all # <<>>

\* ------------------------------------------------------------------ C22

\* a link check of the run in slot p moves in this step
CheckMoves(p) == cyc'[p].checks # cyc[p].checks

\* C22: within one run the phases are strictly ordered. A link check is
\* started only by the step that ends the pause after the last query or by
\* the resolution of the window before, with the candidate list as it will
\* stay and one check per candidate; a check that was started is never
\* started again and the requests it sent are never taken back; the
\* scholarship store is written only when no query and no link check of the
\* run is outstanding and every candidate has been judged; and a step in
\* which a link check moves writes neither the store nor the run records.
C22_PhasesInOrder ==
  [][\A p \in Procs :
       /\ \A k \in 1..Len(cyc'[p].checks) :
            CheckStarts(p, k) =>
              /\ \/ cyc[p].pc = "pause" /\ cyc[p].qi = QueriesPerSet
                 \/ cyc[p].pc = "verify" /\ WindowSettled(cyc[p])
              /\ cyc'[p].all = cyc[p].all
              /\ Len(cyc'[p].checks) = Len(cyc[p].all)
       /\ \A k \in 1..Len(cyc[p].checks) :
            (cyc[p].checks[k].st # "wait" /\ cyc'[p].pc = "verify") =>
              /\ cyc'[p].checks[k].st # "wait"
              /\ cyc'[p].checks[k].st = "head" => cyc[p].checks[k].st = "head"
              /\ Len(cyc'[p].checks[k].sent) >= Len(cyc[p].checks[k].sent)
              /\ cyc'[p].checks[k].sent[1] = "HEAD"
       /\ (scholarships' # scholarships /\ cyc[p].caller = "cycle") =>
            /\ cyc[p].pc \notin {"createLog", "search", "pause", "verify"}
            /\ Len(cyc[p].checks) = Len(cyc[p].all)
            /\ \A k \in 1..Len(cyc[p].checks) : cyc[p].checks[k].st \in Judged
       /\ (CheckMoves(p) /\ cyc[p].pc = "verify") =>
            /\ scholarships' = scholarships
            /\ fetchLogs' = fetchLogs
            /\ nextId' = nextId]_vars

\* a candidate of the second window has been written to the store: both
\* windows were checked before
C22_Witness ==
  \E p \in Procs :
    /\ cyc[p].caller = "cycle"
    /\ Len(cyc[p].checks) > batchSize
    /\ \A k \in 1..Len(cyc[p].checks) : cyc[p].checks[k].st \in Judged
    /\ \E k \in (batchSize + 1)..Len(cyc[p].checks) :
         /\ cyc[p].checks[k].st = "alive"
         /\ \E d \in scholarships : d.link = cyc[p].all[k].link

\* ------------------------------------------------------------------ C23

\* the keys of ParsedScholarshipSchema
SchemaKeys ==
  {"title", "organization", "country", "level", "field", "category", "deadline",
   "description", "link", "amount", "currency"}

\* the positions of a parsed array whose element satisfies the field schema,
\* the trust policy and the deadline window
Satisfying(parsed) ==
  {k \in 1..Len(parsed) :
     /\ SchemaAccepts(parsed[k])
     /\ isOfficialDirectLink(parsed[k].link)
     /\ DateOf(parsed[k].deadline) # NaN
     /\ DateOf(parsed[k].deadline) >= now
     /\ DateOf(parsed[k].deadline) <= PlusYears(now, MaxYearsAhead)}

\* C23: validation is per element. For a provider call whose text parsed,
\* the list returned has one element for each element of the parsed array
\* that satisfies the field schema, the trust policy and the deadline window,
\* and no other, in the order of the array; each is the element itself, field
\* by field, with the defaults of the schema for an amount or a currency the
\* element does not have. So an element that lacks a required field or
\* violates an enum is left out and no other element is left out or changed.
C23_ValidationPerElement ==
  \A p \in Procs :
    (cyc[p].pc = "called" /\ cyc[p].answer.text = "text" /\ ParseJson(cyc[p].answer).ok) =>
      LET parsed == ParseJson(cyc[p].answer).parsed
          acc == Satisfying(parsed)
          out == cyc[p].all
      IN /\ Len(out) = Cardinality(acc)
         /\ \A k \in acc :
              LET e == out[1 + Cardinality({i \in acc : i < k})]
              IN /\ DOMAIN e = SchemaKeys
                 /\ \A f \in SchemaKeys \ parsed[k].missing : e[f] = parsed[k][f]
                 /\ "amount" \in parsed[k].missing => e.amount = Varies
                 /\ "currency" \in parsed[k].missing => e.currency = "USD"

\* an array whose first element lacks its title and whose second element is
\* sound: the list returned is the second element alone
C23_Witness ==
  \E p \in Procs :
    /\ cyc[p].pc = "called"
    /\ cyc[p].answer.whole = "array"
    /\ cyc[p].answer.block = "none"
    /\ cyc[p].answer.items = <<ItemNoTitle, ItemGood>>
    /\ cyc[p].all = <<CandA>>

\* ------------------------------------------------------------------ C24

\* the instant of a deadline is strictly earlier than the current time or
\* more than 3 years after it
OutOfWindow(deadline) ==
  /\ DateOf(deadline) # NaN
  /\ \/ DateOf(deadline) < now
     \/ DateOf(deadline) > now + MaxYearsAhead * 20000

TrustHost(link) == StripWww(HostLower(link))

\* host h is the domain or one of its subdomains
IsOrIsUnder(h, domain) ==
  \/ h = domain
  \/ \E i \in 1..(Len(h) - 1) : SubSeq(h, i + 1, Len(h)) = domain

\* C25: isOfficialDirectLink returns false for every link whose scheme is
\* not http or https, whose hostname (lower-cased, one leading "www."
\* removed) is a blocklisted domain or a subdomain of one, or whose path ends
\* in ".pdf" in any letter case, and for text that is no URL; it returns true
\* for every other URL of scheme http or https, https://mit.edu/apply among
\* them.
C25_TrustPredicate ==
  \A p \in Procs :
    cyc[p].pc = "judged" =>
      LET link == cyc[p].url
      IN /\ cyc[p].official =
              /\ link.kind = "url"
              /\ link.proto \in {"http:", "https:"}
              /\ ~\E domain \in BLOCKED_DOMAINS : IsOrIsUnder(TrustHost(link), domain)
              /\ ToLower(link.ext) # <<"p", "d", "f">>
         /\ link = MitApply => cyc[p].official

\* the link https://WWW.scholarships.com/....Pdf was judged not official
C25_Witness ==
  \E p \in Procs :
    /\ cyc[p].pc = "judged"
    /\ cyc[p].url.proto = "https:"
    /\ cyc[p].url.host = <<"WWW", "scholarships", "com">>
    /\ cyc[p].url.ext = <<"P", "d", "f">>
    /\ ~cyc[p].official

\* ------------------------------------------------------------------ C30

\* C30: isOfficialDirectLink and isValidApplicationLink return the same
\* boolean for every link string.
C30_TrustPredicatesAgree ==
  \A p \in Procs : cyc[p].pc = "judged" => cyc[p].official = cyc[p].valid

\* both predicates accepted http://www.mit.edu with blanks around it, a link
\* the schema of the provider output would have let through
C30_Witness ==
  \E p \in Procs :
    /\ cyc[p].pc = "judged"
    /\ cyc[p].url = [kind |-> "url", proto |-> "http:", host |-> <<"www", "mit", "edu">>,
                     ext |-> <<>>, pad |-> TRUE]
    /\ cyc[p].official /\ cyc[p].valid

\* ------------------------------------------------------------------ C28

\* the text that is handed to JSON.parse: the content of the first fenced
\* code block if the text has one, else the whole text
TextParsed(answer) == IF answer.block = "none" THEN answer.whole ELSE answer.block

\* C28: a provider call never ends in an exception; when the text handed to
\* JSON.parse (the content of the first fenced code block if there is one,
\* else the whole text) is not JSON the call returns the empty list, whatever
\* the rest of the text holds; when it is JSON every candidate returned is
\* an element of the parsed array, or the parsed value itself when that is
\* no array.
C28_UnparseableTextGivesNothing ==
  \A p \in Procs :
    (cyc[p].pc = "called" /\ cyc[p].answer.text = "text") =>
      LET answer == cyc[p].answer
          out == cyc[p].all
      IN /\ cyc[p].err = ""
         /\ TextParsed(answer) = "junk" => out = <<>>
         /\ TextParsed(answer) = "array" =>
              \A j \in 1..Len(out) :
                \E k \in 1..Len(answer.items) : out[j] = SchemaData(answer.items[k])
         /\ TextParsed(answer) \in {"object", "scalar"} =>
              \A j \in 1..Len(out) : out[j] = SchemaData(answer.items[1])

\* the first fenced block of the text is not JSON while the text as a whole
\* is the JSON of an array with a sound element: nothing is returned
C28_Witness ==
  \E p \in Procs :
    /\ cyc[p].pc = "called"
    /\ cyc[p].answer.block = "junk"
    /\ cyc[p].answer.whole = "array"
    /\ cyc[p].answer.items = <<ItemGood>>
    /\ cyc[p].all = <<>>
    /\ cyc[p].err = ""

\* ------------------------------------------------------------------ C26

\* the run of slot p has ended and left run record logId
RunEnded(p) == cyc[p].pc = "done" /\ cyc[p].caller = "cycle" /\ cyc[p].logId # 0

InvocationStarts(p) == cyc[p].pc # "createLog" /\ cyc'[p].pc = "createLog"

\* the invocation of slot p ends in this step with its run record completed
\* or failed
InvocationEndsRecorded(p) ==
  /\ cyc[p].pc \in {"complete", "fail"}
  /\ cyc'[p].pc = "done"
  /\ fetchLogs'[cyc[p].logId].status \in {"completed", "failed"}

\* C27: every invocation of runFetchCycle() that ends completed or failed
\* advances the run counter by exactly one, and the i-th invocation
\* (counting from 0; started counts the invocations made so far) issues the
\* queries of query set i mod 5.
C27_InvocationIUsesSetIMod5 ==
  [][\A p \in Procs :
       /\ InvocationEndsRecorded(p) => runIndex' = runIndex + 1
       /\ InvocationStarts(p) => cyc'[p].qset = started % NumQuerySets]_vars

\* ------------------------------------------------------------------ C29

\* the ids of the records of a collection
IdsOf(docs) == {d._id : d \in docs}

\* C29: the pipeline never deletes a scholarship record. A step of a fetch
\* cycle leaves every record id of the store in the store, and a step after
\* which an id is gone is a call of deleteScholarship for that id.
C29_OnlyDeleteScholarshipDeletes ==
  [][/\ admin' = admin => IdsOf(scholarships) \subseteq IdsOf(scholarships')
     /\ \A id \in IdsOf(scholarships) \ IdsOf(scholarships') : deleteScholarship(id)]_vars

\* a fetch cycle has inserted a record and ended, an administrator has
\* deleted a record, and the store is not empty
C29_Witness ==
  \E p \in Procs :
    /\ cyc[p].pc = "done"
    /\ cyc[p].caller = "cycle"
    /\ cyc[p].inserted > 0
    /\ \E id \in 1..(nextId - 1) : id \notin IdsOf(scholarships)
    /\ scholarships # {}

\* ------------------------------------------------------------------ C31

\* C31: two invocations of runFetchCycle() never issue the same query set
\* unless 5 invocations lie between them: of the run records, which are
\* created in the order of the invocations, any two less than 5 apart name
\* different query sets, also when the runs overlap.
C31_NearbyRunsUseDifferentSets ==
  \A i \in 1..Len(fetchLogs) : \A j \in 1..Len(fetchLogs) :
    (i < j /\ j - i < NumQuerySets) =>
      fetchLogs[i].search_queries # fetchLogs[j].search_queries

\* ------------------------------------------------------------------ C32

\* C32: the provenance string written on a record inserted by a run names
\* the query batch that run issued: in the step in which a fetch cycle
\* inserts a record, the batch number of the record's source is the index
\* of the query set of that run plus one.
C32_ProvenanceNamesBatchIssued ==
  [][\A p \in Procs :
       (cyc[p].pc = "create" /\ cyc[p].caller = "cycle"
          /\ cyc'[p].inserted = cyc[p].inserted + 1) =>
         \A d \in scholarships' \ scholarships : d.source.batch = cyc[p].qset + 1]_vars

\* ------------------------------------------------------------------ C33

\* C33: through any sequence of pipeline merges the stored deadline of a
\* record never moves earlier and the stored description never becomes
\* shorter: a step of storeScholarships leaves every record that was in the
\* collection with a deadline and a description length at least what they
\* were.
C33_MergeNeverLosesBetterData ==
  [][\A d \in scholarships : \A e \in scholarships' :
       e._id = d._id =>
         /\ e.deadline >= d.deadline
         /\ Len(e.description) >= Len(d.description)]_vars

\* ------------------------------------------------------------------ C34

\* C34: a run that is recorded as 'failed' made no change to the scholarship
\* store: it inserted no record and merged into none.
C34_FailedRunWroteNothing ==
  \A p \in Procs :
    (RunEnded(p) /\ fetchLogs[cyc[p].logId].status = "failed") =>
      cyc[p].inserted = 0 /\ cyc[p].merged = 0

\* ------------------------------------------------------------------ C35

C36_EveryCandidateClassified ==
  \A p \in Procs :
    cyc[p].pc = "complete" =>
      cyc[p].added + cyc[p].duped + cyc[p].rejected = Len(cyc[p].list)

\* ------------------------------------------------------------------ C37

\* C37: every record the pipeline inserts has a stored title of at least 10
\* characters, a stored organization of at least 3 and a stored description
\* of at least 50.
C37_StoredValuesMeetFloors ==
  [][\A p \in Procs :
       cyc'[p].inserted = cyc[p].inserted + 1 =>
         \A d \in scholarships' \ scholarships :
           /\ Len(d.title) >= MinTitleLen
           /\ Len(d.organization) >= MinOrgLen
           /\ Len(d.description) >= MinDescLen]_vars

\* ------------------------------------------------------------------ C38

\* C38: whenever the provider-manager singleton exists it has an active
\* provider, so that searchScholarships and runSearchBatch on it never fail
\* with "No provider initialized".
C38_ManagerAlwaysHasProvider ==
  /\ aiServiceInstance.made => aiServiceInstance.current # "null"
  /\ \A p \in Procs : cyc[p].err # NoProviderInitialized

\* ------------------------------------------------------------------ C39

\* C39: getAvailableProviders() marks as current exactly the provider that
\* getProviderName() reports and that serves searchScholarships; and after a
\* successful switchProvider(n) the searches are served by n until the next
\* switch.
C39_CurrentMarkIsActiveProvider ==
  [][/\ aiServiceInstance'.made =>
          \A n \in ProviderNames :
            getAvailableProviders(aiServiceInstance')[n].current <=>
              ProviderClassName(n) = getProviderName(aiServiceInstance')
     /\ \A p \in Procs :
          /\ \A n \in ProviderNames :
               (SwitchCall(p, n) /\ cyc'[p].result = "resolved") =>
                 aiServiceInstance'.current = ProviderClassName(n)
          /\ (SearchCall(p) /\ aiServiceInstance.made) =>
               /\ aiServiceInstance' = aiServiceInstance
               /\ cyc'[p].result = "resolved" =>
                    cyc'[p].provider = aiServiceInstance.current]_vars

\* ------------------------------------------------------------------ C40

\* C40: a call that reaches getAIService() while no manager exists fails in
\* the constructor exactly when the provider selected by the environment is
\* unknown or has no key, whatever keys other providers have; after such a
\* failure there is still no manager, so the next call constructs again; a
\* construction that succeeds takes the selected provider; and once a manager
\* exists no call fails in the constructor, the manager is never replaced and
\* only switchProvider changes it.
C40_ConstructionFailsOnlyWithoutSelectedProvider ==
  [][\A p \in Procs :
       (InstanceCall(p) \/ SearchCall(p) \/ BatchCall(p) \/ ListCall(p)
          \/ \E n \in ProviderNames : SwitchCall(p, n)) =>
         /\ ~aiServiceInstance.made =>
              /\ cyc'[p] = ConstructorThrew(cyc'[p].caller) <=>
                   (ConfiguredProvider \notin ProviderNames
                      \/ ConfiguredProvider \notin env.keys)
              /\ cyc'[p] = ConstructorThrew(cyc'[p].caller) =>
                   aiServiceInstance' = NoInstance
              /\ cyc'[p] # ConstructorThrew(cyc'[p].caller) =>
                   /\ aiServiceInstance'.made
                   /\ aiServiceInstance'.keys = env.keys
                   /\ cyc'[p].caller # "switchProvider" =>
                        /\ aiServiceInstance'.provider = ConfiguredProvider
                        /\ aiServiceInstance'.current =
                             ProviderClassName(ConfiguredProvider)
         /\ aiServiceInstance.made =>
              /\ cyc'[p] # ConstructorThrew(cyc'[p].caller)
              /\ aiServiceInstance'.made
              /\ aiServiceInstance'.keys = aiServiceInstance.keys
              /\ cyc'[p].caller # "switchProvider" =>
                   aiServiceInstance' = aiServiceInstance]_vars

\* one caller failed in the constructor, the environment was then set and
\* another caller's search was served by the manager constructed for it
C40_Witness ==
  \E p \in Procs : \E q \in Procs \ {p} :
    /\ cyc[p] = ConstructorThrew("searchScholarships")
    /\ cyc[q].caller = "searchScholarships"
    /\ cyc[q].result = "resolved"
    /\ aiServiceInstance.made
    /\ aiServiceInstance.provider = "gemini"
    /\ aiServiceInstance.keys = {"gemini", "grok"}

====
